---- MODULE Spec2Model ----
(***************************************************************************)
(* A model of the manuscript parser (package parser): the scanner that     *)
(* turns the characters of a story file into Document.Text, a flat         *)
(* sequence of DocumentElements, and the structure builder (parseText)     *)
(* that folds Document.Text into Document.Parts.                           *)
(*                                                                         *)
(* A character (Go rune) is a one-character string; a Go string or []rune  *)
(* is a sequence of characters.                                            *)
(***************************************************************************)
EXTENDS Integers, Sequences, FiniteSets, TLC

VARIABLES
    fin,     \* the bufio.Reader: src = the characters of the file, pos = index of
             \* the next rune, last = the last operation was a successful ReadRune,
             \* unreadErr = some UnreadRune has failed (ErrInvalidUnreadRune)
    pc,      \* where Parse stands: "meta", "body", "para", "done", or "build"/"built"
    d,       \* the Document under construction
    err,     \* the error Parse returns ("nil" = no error)
    es,      \* lexParagraph: the elements emitted so far in this paragraph
    buf,     \* lexParagraph: the buffered text
    bold,    \* lexParagraph: bold toggle
    italic,  \* lexParagraph: italic toggle
    eofAt,   \* the read at which fin ran out of input ("none" while it has not)
    count,   \* WordCount: the words counted so far
    words,   \* WordCount: the value returned (0 before it returns)
    labels   \* the renderers: for every rendering done, the chapter labels it wrote

vars == <<fin, pc, d, err, es, buf, bold, italic, eofAt, count, words, labels>>

-----------------------------------------------------------------------------
(* Bounds of the model.                                                    *)

\* longest element sequence handed to the structure builder
MaxElems == 5

-----------------------------------------------------------------------------
(* The data model: DocumentElement and the Document tree.                  *)

ParagraphBreak == [type |-> "ParagraphBreak", text |-> <<>>]
SceneBreak == [type |-> "SceneBreak", text |-> <<>>]
PrologueBreak(title) == [type |-> "PrologueBreak", text |-> title]
PartBreak(title) == [type |-> "PartBreak", text |-> title]
ChapterBreak(title) == [type |-> "ChapterBreak", text |-> title]
PlainText(t) == [type |-> "PlainText", text |-> t]
ItalicText(t) == [type |-> "ItalicText", text |-> t]
BoldText(t) == [type |-> "BoldText", text |-> t]
BoldItalicText(t) == [type |-> "BoldItalicText", text |-> t]

TextTypes == {"PlainText", "ItalicText", "BoldText", "BoldItalicText"}

\* the zero values of the tree's struct types
Part == [Title |-> <<>>, Anonymous |-> FALSE, Number |-> 0, Chapters |-> <<>>]
Chapter == [Title |-> <<>>, Anonymous |-> FALSE, Prologue |-> FALSE, Number |-> 0,
            Scenes |-> <<>>]
Scene == [EndsWithSceneBreak |-> FALSE, Paragraphs |-> <<>>]
Paragraph == [Text |-> <<>>]

ShortStory == 0
Novel == 1

Document == [Type |-> ShortStory, Title |-> <<>>, ShortTitle |-> <<>>,
             Author |-> [Name |-> <<>>, Byline |-> <<>>, ShortName |-> <<>>,
                         Address |-> <<>>, PhoneNumber |-> <<>>,
                         EmailAddress |-> <<>>, ProfessionalOrgs |-> <<>>],
             Parts |-> <<>>, Text |-> <<>>]

-----------------------------------------------------------------------------
(* The structure builder.  Every Go function returning (unit, rest) is an  *)
(* operator returning a record; every for loop is a RECURSIVE operator     *)
(* over the loop's variables.                                              *)

IsStructuralBreak(e) == e.type \in {"PrologueBreak", "ChapterBreak", "PartBreak"}

RECURSIVE parseParagraphLoop(_, _)
parseParagraphLoop(p, text) ==
    IF text = <<>> THEN [p |-> p, rest |-> text]
    ELSE IF text[1].type = "ParagraphBreak" THEN [p |-> p, rest |-> Tail(text)]
    ELSE IF text[1].type = "SceneBreak" \/ IsStructuralBreak(text[1])
         THEN [p |-> p, rest |-> text]
    ELSE parseParagraphLoop([p EXCEPT !.Text = Append(@, text[1])], Tail(text))

\* a slip of parseParagraph: every run is put before the runs already there
parseParagraphPrepends(text) ==
    LET r == parseParagraphLoop(Paragraph, text)
        n == Len(r.p.Text)
    IN  [r EXCEPT !.p.Text = [i \in 1..n |-> r.p.Text[n + 1 - i]]]

parseParagraph(text) == parseParagraphLoop(Paragraph, text)

RECURSIVE parseSceneLoop(_, _)
parseSceneLoop(s, text) ==
    IF text = <<>> THEN [s |-> s, rest |-> text]
    ELSE LET r == parseParagraph(text)
             s1 == [s EXCEPT !.Paragraphs = Append(@, r.p)]
         IN  IF r.rest # <<>> /\ r.rest[1].type = "SceneBreak"
             THEN [s |-> [s1 EXCEPT !.EndsWithSceneBreak = TRUE], rest |-> Tail(r.rest)]
             ELSE IF r.rest # <<>> /\ IsStructuralBreak(r.rest[1])
             THEN [s |-> s1, rest |-> r.rest]
             ELSE parseSceneLoop(s1, r.rest)

\* a slip of parseScene: the Scene never records the scene-break that ends it
parseSceneNeverFlags(text) ==
    [parseSceneLoop(Scene, text) EXCEPT !.s.EndsWithSceneBreak = FALSE]

parseScene(text) == parseSceneLoop(Scene, text)

RECURSIVE parseChapterLoop(_, _)
parseChapterLoop(c, text) ==
    IF text = <<>> THEN [c |-> c, rest |-> text]
    ELSE LET r == parseScene(text)
             c1 == [c EXCEPT !.Scenes = Append(@, r.s)]
         IN  IF r.rest # <<>> /\ IsStructuralBreak(r.rest[1])
             THEN [c |-> c1, rest |-> r.rest]
             ELSE parseChapterLoop(c1, r.rest)

\* the header of parseChapter: what kind of Chapter text[0] introduces
\* a slip of chapterHeader: a prologue-break opens an ordinary Chapter
chapterHeaderForgetsPrologue(text) ==
    IF text[1].type \in {"PrologueBreak", "ChapterBreak"}
    THEN [c |-> [Chapter EXCEPT !.Anonymous = FALSE, !.Title = text[1].text],
          rest |-> Tail(text)]
    ELSE [c |-> [Chapter EXCEPT !.Anonymous = TRUE], rest |-> text]

chapterHeader(text) ==
    IF text[1].type = "PrologueBreak"
    THEN [c |-> [Chapter EXCEPT !.Anonymous = FALSE, !.Prologue = TRUE,
                                !.Title = text[1].text],
          rest |-> Tail(text)]
    ELSE IF text[1].type = "ChapterBreak"
    THEN [c |-> [Chapter EXCEPT !.Anonymous = FALSE, !.Title = text[1].text],
          rest |-> Tail(text)]
    ELSE [c |-> [Chapter EXCEPT !.Anonymous = TRUE], rest |-> text]

parseChapter(text) ==
    LET h == chapterHeader(text) IN parseChapterLoop(h.c, h.rest)

\* a slip of chapterCounters: chapters and prologues share one counter
chapterCountersShared(c, chapterNumber, prologueNumber) ==
    IF ~c.Anonymous
    THEN [chapterNumber |-> chapterNumber + prologueNumber + 1,
          prologueNumber |-> chapterNumber + prologueNumber + 1]
    ELSE [chapterNumber |-> chapterNumber, prologueNumber |-> prologueNumber]

\* parsePart's numbering of the Chapter c just parsed: the counters after it
chapterCounters(c, chapterNumber, prologueNumber) ==
    IF c.Prologue
    THEN [chapterNumber |-> chapterNumber,
          prologueNumber |-> IF ~c.Anonymous THEN prologueNumber + 1
                             ELSE prologueNumber]
    ELSE [chapterNumber |-> IF ~c.Anonymous THEN chapterNumber + 1
                            ELSE chapterNumber,
          prologueNumber |-> prologueNumber]

RECURSIVE parsePartLoop(_, _, _, _)
parsePartLoop(p, text, chapterNumber, prologueNumber) ==
    IF text = <<>> THEN [p |-> p, rest |-> text]
    ELSE LET r == parseChapter(text)
             n == chapterCounters(r.c, chapterNumber, prologueNumber)
             c == [r.c EXCEPT !.Number = IF r.c.Prologue THEN n.prologueNumber
                                         ELSE n.chapterNumber]
             p1 == [p EXCEPT !.Chapters = Append(@, c)]
         IN  IF r.rest # <<>> /\ r.rest[1].type = "PartBreak"
             THEN [p |-> p1, rest |-> r.rest]
             ELSE parsePartLoop(p1, r.rest, n.chapterNumber, n.prologueNumber)

\* a slip of partHeader: a Part is anonymous when it has no title
partHeaderAnonymousByTitle(text) ==
    IF text[1].type = "PartBreak"
    THEN [p |-> [Part EXCEPT !.Anonymous = (text[1].text = <<>>),
                             !.Title = text[1].text],
          rest |-> Tail(text)]
    ELSE [p |-> [Part EXCEPT !.Anonymous = FALSE], rest |-> text]

\* a slip of partHeader: the part-break that opens the Part is not removed
partHeaderKeepsBreak(text) ==
    IF text[1].type = "PartBreak"
    THEN [p |-> [Part EXCEPT !.Anonymous = FALSE, !.Title = text[1].text],
          rest |-> text]
    ELSE [p |-> [Part EXCEPT !.Anonymous = TRUE], rest |-> text]

\* the header of parsePart: whether text[0] introduces the Part
partHeader(text) ==
    IF text[1].type = "PartBreak"
    THEN [p |-> [Part EXCEPT !.Anonymous = FALSE, !.Title = text[1].text],
          rest |-> Tail(text)]
    ELSE [p |-> [Part EXCEPT !.Anonymous = TRUE], rest |-> text]

parsePart(text) ==
    LET h == partHeader(text) IN parsePartLoop(h.p, h.rest, 0, 0)

\* a slip of partCounter: every Part advances the counter
partCounterCountsAnonymous(p, partNumber) == partNumber + 1

\* parseText's numbering of the Part p just parsed: the counter after it
partCounter(p, partNumber) ==
    IF ~p.Anonymous THEN partNumber + 1 ELSE partNumber

RECURSIVE parseTextLoop(_, _, _)
parseTextLoop(ps, text, partNumber) ==
    IF text = <<>> THEN ps
    ELSE LET r == parsePart(text)
             n == partCounter(r.p, partNumber)
         IN  parseTextLoop(Append(ps, [r.p EXCEPT !.Number = n]), r.rest, n)

parseText(text) == parseTextLoop(<<>>, text, 0)

-----------------------------------------------------------------------------
(* The builder on its own: Document.Text is any sequence of at most        *)
(* MaxElems elements, and BuildTree is Parse's d.Parts = parseText(d.Text).*)

Elements ==
    { ParagraphBreak, SceneBreak, PartBreak(<<"P">>), PrologueBreak(<<>>),
      ChapterBreak(<<"C">>), ChapterBreak(<<"D">>), PlainText(<<"a">>),
      ItalicText(<<"b">>) }

ElementSeqs == UNION { [1..n -> Elements] : n \in 0..MaxElems }

InitBuild ==
    /\ fin = [src |-> <<>>, pos |-> 1, last |-> FALSE, unreadErr |-> FALSE]
    /\ pc = "build"
    /\ \E t \in ElementSeqs : d = [Document EXCEPT !.Text = t]
    /\ err = "nil"
    /\ es = <<>>
    /\ buf = <<>>
    /\ bold = FALSE
    /\ italic = FALSE
    /\ eofAt = "none"
    /\ count = 0
    /\ words = 0
    /\ labels = <<>>

BuildTree ==
    /\ pc = "build"
    /\ d' = [d EXCEPT !.Parts = parseText(d.Text)]
    /\ pc' = "built"
    /\ UNCHANGED <<fin, err, es, buf, bold, italic, eofAt, count, words, labels>>

NextBuild == BuildTree

SpecBuild == InitBuild /\ [][NextBuild]_vars

-----------------------------------------------------------------------------
(* The reader.  bufio.Reader.ReadRune returns the next rune, or the rune 0 *)
(* and io.EOF at the end of the input; UnreadRune steps back over the rune *)
(* the last ReadRune returned; when the last operation was not a           *)
(* successful ReadRune it fails with ErrInvalidUnreadRune and steps back   *)
(* over nothing (the scanner ignores the error).                           *)

NUL == "NUL"

NewReader(rawFIN) == [src |-> rawFIN, pos |-> 1, last |-> FALSE, unreadErr |-> FALSE]

ReadRune(f) ==
    IF f.pos > Len(f.src)
    THEN [r |-> NUL, err |-> "EOF", fin |-> [f EXCEPT !.last = FALSE]]
    ELSE [r |-> f.src[f.pos], err |-> "nil",
          fin |-> [f EXCEPT !.pos = f.pos + 1, !.last = TRUE]]

UnreadRune(f) ==
    IF f.last THEN [f EXCEPT !.pos = f.pos - 1, !.last = FALSE]
    ELSE [f EXCEPT !.unreadErr = TRUE]

\* the characters of the file Parse reads
input == fin.src

\* unicode.IsSpace, on the characters of the model
SpaceChars == {" ", "\t", "\n", "\r"}
IsSpace(r) == r \in SpaceChars

-----------------------------------------------------------------------------
(* The scanner's helpers.                                                  *)

formatText(text, b, i) ==
    IF i /\ b THEN BoldItalicText(text)
    ELSE IF b THEN BoldText(text)
    ELSE IF i THEN ItalicText(text)
    ELSE PlainText(text)

\* a slip of addWhitespace: the space is appended whatever the text ends in
addWhitespaceAlways(text) == Append(text, " ")

addWhitespace(text) ==
    IF Len(text) = 0 \/ text[Len(text)] # " " THEN Append(text, " ") ELSE text

\* The loops below read rune after rune until one stops them.  Stop is the
\* index of that rune: the first index from f.pos on whose character is in
\* (stopAtSpace) or not in (otherwise) the white space, or is the newline;
\* Len(f.src) + 1 when the input ends before.
FirstIndex(f, S) ==
    LET hits == { i \in f.pos..Len(f.src) : f.src[i] \in S } IN
    IF hits = {} THEN Len(f.src) + 1
    ELSE CHOOSE i \in hits : \A j \in hits : i <= j

AtEnd(f) == [f EXCEPT !.pos = Len(f.src) + 1, !.last = FALSE]

\* reads up to the first rune that is no white space, and unreads it
eatWhitespace(f) ==
    LET hits == { i \in f.pos..Len(f.src) : ~IsSpace(f.src[i]) } IN
    IF hits = {} THEN [err |-> "EOF", fin |-> AtEnd(f)]
    ELSE LET stop == CHOOSE i \in hits : \A j \in hits : i <= j IN
         [err |-> "nil", fin |-> UnreadRune(ReadRune([f EXCEPT !.pos = stop]).fin)]

\* reads up to the first white space rune, and unreads it
readWord(f) ==
    LET stop == FirstIndex(f, SpaceChars) IN
    IF stop > Len(f.src) THEN [text |-> <<>>, err |-> "EOF", fin |-> AtEnd(f)]
    ELSE [text |-> SubSeq(f.src, f.pos, stop - 1), err |-> "nil",
          fin |-> UnreadRune(ReadRune([f EXCEPT !.pos = stop]).fin)]

\* a slip of readPlainText: the text also ends at an '@'
readPlainTextStopsAtSigil(f) ==
    LET stop == FirstIndex(f, {"\n", "@"}) IN
    IF stop > Len(f.src) THEN [text |-> <<>>, err |-> "EOF", fin |-> AtEnd(f)]
    ELSE [text |-> SubSeq(f.src, f.pos, stop - 1), err |-> "nil",
          fin |-> IF f.src[stop] = "\n"
                  THEN [f EXCEPT !.pos = stop + 1, !.last = TRUE]
                  ELSE [f EXCEPT !.pos = stop, !.last = FALSE]]

\* reads up to and including the first newline
readPlainText(f) ==
    LET stop == FirstIndex(f, {"\n"}) IN
    IF stop > Len(f.src) THEN [text |-> <<>>, err |-> "EOF", fin |-> AtEnd(f)]
    ELSE [text |-> SubSeq(f.src, f.pos, stop - 1), err |-> "nil",
          fin |-> [f EXCEPT !.pos = stop + 1, !.last = TRUE]]

\* strings.TrimSpace
RECURSIVE TrimLeft(_)
TrimLeft(t) == IF t # <<>> /\ IsSpace(t[1]) THEN TrimLeft(Tail(t)) ELSE t

RECURSIVE TrimRight(_)
TrimRight(t) ==
    IF t # <<>> /\ IsSpace(t[Len(t)]) THEN TrimRight(SubSeq(t, 1, Len(t) - 1)) ELSE t

TrimSpace(t) == TrimRight(TrimLeft(t))

\* the directive names, as the character sequences readWord returns
W_begin == <<"b", "e", "g", "i", "n">>
W_scene == <<"s", "c", "e", "n", "e">>
W_chapter == <<"c", "h", "a", "p", "t", "e", "r">>
W_part == <<"p", "a", "r", "t">>
W_prologue == <<"p", "r", "o", "l", "o", "g", "u", "e">>
W_note == <<"n", "o", "t", "e">>
W_notes == <<"n", "o", "t", "e", "s">>
W_type == <<"t", "y", "p", "e">>
W_title == <<"t", "i", "t", "l", "e">>
W_shortTitle == <<"s", "h", "o", "r", "t", "T", "i", "t", "l", "e">>
W_authorName == <<"a", "u", "t", "h", "o", "r", "N", "a", "m", "e">>
W_authorShortName ==
    <<"a", "u", "t", "h", "o", "r", "S", "h", "o", "r", "t", "N", "a", "m", "e">>
W_authorByline == <<"a", "u", "t", "h", "o", "r", "B", "y", "l", "i", "n", "e">>
W_authorAddress == <<"a", "u", "t", "h", "o", "r", "A", "d", "d", "r", "e", "s", "s">>
W_authorPhoneNumber ==
    <<"a", "u", "t", "h", "o", "r", "P", "h", "o", "n", "e", "N", "u", "m", "b", "e", "r">>
W_authorEmail == <<"a", "u", "t", "h", "o", "r", "E", "m", "a", "i", "l">>
W_authorOrgs == <<"a", "u", "t", "h", "o", "r", "O", "r", "g", "s">>
W_shortStory == <<"s", "h", "o", "r", "t", "S", "t", "o", "r", "y">>
W_novel == <<"n", "o", "v", "e", "l">>

-----------------------------------------------------------------------------
(* The metadata phase.                                                     *)

\* the argument loop of lexMetadataDirective
RECURSIVE lexMetadataArgs(_, _, _)
lexMetadataArgs(name, args, f) ==
    IF name = W_begin \/ name = W_scene
    THEN [name |-> name, args |-> args, err |-> "nil", fin |-> f, eofAt |-> "none"]
    ELSE LET ew == eatWhitespace(f) IN
         IF ew.err # "nil"
         THEN [name |-> name, args |-> args, err |-> ew.err, fin |-> ew.fin,
               eofAt |-> "lexMetadataDirective.eatWhitespace"]
         ELSE LET rd == ReadRune(ew.fin)
                  f1 == UnreadRune(rd.fin)
              IN  IF rd.err # "nil"
                  THEN [name |-> name, args |-> args, err |-> rd.err, fin |-> rd.fin,
                        eofAt |-> "lexMetadataDirective.peek"]
                  ELSE IF rd.r = "@"
                  THEN [name |-> name, args |-> args, err |-> "nil", fin |-> f1,
                        eofAt |-> "none"]
                  ELSE LET pt == readPlainText(f1) IN
                       IF pt.err # "nil"
                       THEN [name |-> name, args |-> args, err |-> pt.err,
                             fin |-> pt.fin, eofAt |-> "lexMetadataDirective.arg"]
                       ELSE lexMetadataArgs(name, Append(args, pt.text), pt.fin)

lexMetadataDirective(f) ==
    LET ew == eatWhitespace(f) IN
    IF ew.err # "nil"
    THEN [name |-> <<>>, args |-> <<>>, err |-> ew.err, fin |-> ew.fin,
          eofAt |-> "lexMetadataDirective.eatWhitespace"]
    ELSE LET rd == ReadRune(ew.fin) IN
         IF rd.r # "@"
         THEN [name |-> <<>>, args |-> <<>>, err |-> "Expected directive",
               fin |-> rd.fin, eofAt |-> "none"]
         ELSE LET w == readWord(rd.fin) IN
              IF w.err # "nil"
              THEN [name |-> w.text, args |-> <<>>, err |-> w.err, fin |-> w.fin,
                    eofAt |-> "lexMetadataDirective.name"]
              ELSE lexMetadataArgs(w.text, <<>>, w.fin)

\* a slip of lexMetadataSwitch: a single-value directive given several lines
\* takes the first and does not fail
lexMetadataSwitchTakesFirst(doc, name, args) ==
    LET one(msg, new) == IF Len(args) < 1 THEN [d |-> doc, err |-> msg]
                         ELSE [d |-> new, err |-> "nil"]
        some(msg, new) == IF Len(args) < 1 THEN [d |-> doc, err |-> msg]
                          ELSE [d |-> new, err |-> "nil"]
    IN
    CASE name = W_notes -> [d |-> doc, err |-> "nil"]
      [] name = W_type ->
            IF Len(args) < 1 THEN [d |-> doc, err |-> "Missing type"]
            ELSE IF args[1] = W_shortStory
                 THEN [d |-> [doc EXCEPT !.Type = ShortStory], err |-> "nil"]
            ELSE IF args[1] = W_novel
                 THEN [d |-> [doc EXCEPT !.Type = Novel], err |-> "nil"]
            ELSE [d |-> doc, err |-> "Invalid story type"]
      [] name = W_title ->
            one("Missing title", [doc EXCEPT !.Title = args[1]])
      [] name = W_shortTitle ->
            one("Missing short title", [doc EXCEPT !.ShortTitle = args[1]])
      [] name = W_authorName ->
            one("Missing author name", [doc EXCEPT !.Author.Name = args[1]])
      [] name = W_authorShortName ->
            one("Missing author short name",
                [doc EXCEPT !.Author.ShortName = args[1]])
      [] name = W_authorByline ->
            one("Missing author byline", [doc EXCEPT !.Author.Byline = args[1]])
      [] name = W_authorAddress ->
            some("Missing author address", [doc EXCEPT !.Author.Address = args])
      [] name = W_authorPhoneNumber ->
            one("Missing author phone number",
                [doc EXCEPT !.Author.PhoneNumber = args[1]])
      [] name = W_authorEmail ->
            one("Missing author email", [doc EXCEPT !.Author.EmailAddress = args[1]])
      [] name = W_authorOrgs ->
            some("Missing author organizations",
                 [doc EXCEPT !.Author.ProfessionalOrgs = args])
      [] name = W_begin -> [d |-> doc, err |-> "nil"]
      [] OTHER -> [d |-> doc, err |-> "Unrecognized directive"]

\* the switch of lexMetadata on one directive: the Document and the error after it
\* a slip of lexMetadataSwitch: @title writes the short title too
lexMetadataSwitchTitleSetsShort(doc, name, args) ==
    LET one(msg, new) == IF Len(args) # 1 THEN [d |-> doc, err |-> msg]
                         ELSE [d |-> new, err |-> "nil"]
        some(msg, new) == IF Len(args) < 1 THEN [d |-> doc, err |-> msg]
                          ELSE [d |-> new, err |-> "nil"]
    IN
    CASE name = W_notes -> [d |-> doc, err |-> "nil"]
      [] name = W_type ->
            IF Len(args) # 1 THEN [d |-> doc, err |-> "Missing type"]
            ELSE IF args[1] = W_shortStory
                 THEN [d |-> [doc EXCEPT !.Type = ShortStory], err |-> "nil"]
            ELSE IF args[1] = W_novel
                 THEN [d |-> [doc EXCEPT !.Type = Novel], err |-> "nil"]
            ELSE [d |-> doc, err |-> "Invalid story type"]
      [] name = W_title ->
            one("Missing title",
                [doc EXCEPT !.Title = args[1], !.ShortTitle = args[1]])
      [] name = W_shortTitle ->
            one("Missing short title", [doc EXCEPT !.ShortTitle = args[1]])
      [] name = W_authorName ->
            one("Missing author name", [doc EXCEPT !.Author.Name = args[1]])
      [] name = W_authorShortName ->
            one("Missing author short name",
                [doc EXCEPT !.Author.ShortName = args[1]])
      [] name = W_authorByline ->
            one("Missing author byline", [doc EXCEPT !.Author.Byline = args[1]])
      [] name = W_authorAddress ->
            some("Missing author address", [doc EXCEPT !.Author.Address = args])
      [] name = W_authorPhoneNumber ->
            one("Missing author phone number",
                [doc EXCEPT !.Author.PhoneNumber = args[1]])
      [] name = W_authorEmail ->
            one("Missing author email", [doc EXCEPT !.Author.EmailAddress = args[1]])
      [] name = W_authorOrgs ->
            some("Missing author organizations",
                 [doc EXCEPT !.Author.ProfessionalOrgs = args])
      [] name = W_begin -> [d |-> doc, err |-> "nil"]
      [] OTHER -> [d |-> doc, err |-> "Unrecognized directive"]

lexMetadataSwitch(doc, name, args) ==
    LET one(msg, new) == IF Len(args) # 1 THEN [d |-> doc, err |-> msg]
                         ELSE [d |-> new, err |-> "nil"]
        some(msg, new) == IF Len(args) < 1 THEN [d |-> doc, err |-> msg]
                          ELSE [d |-> new, err |-> "nil"]
    IN
    CASE name = W_notes -> [d |-> doc, err |-> "nil"]
      [] name = W_type ->
            IF Len(args) # 1 THEN [d |-> doc, err |-> "Missing type"]
            ELSE IF args[1] = W_shortStory
                 THEN [d |-> [doc EXCEPT !.Type = ShortStory], err |-> "nil"]
            ELSE IF args[1] = W_novel
                 THEN [d |-> [doc EXCEPT !.Type = Novel], err |-> "nil"]
            ELSE [d |-> doc, err |-> "Invalid story type"]
      [] name = W_title ->
            one("Missing title", [doc EXCEPT !.Title = args[1]])
      [] name = W_shortTitle ->
            one("Missing short title", [doc EXCEPT !.ShortTitle = args[1]])
      [] name = W_authorName ->
            one("Missing author name", [doc EXCEPT !.Author.Name = args[1]])
      [] name = W_authorShortName ->
            one("Missing author short name",
                [doc EXCEPT !.Author.ShortName = args[1]])
      [] name = W_authorByline ->
            one("Missing author byline", [doc EXCEPT !.Author.Byline = args[1]])
      [] name = W_authorAddress ->
            some("Missing author address", [doc EXCEPT !.Author.Address = args])
      [] name = W_authorPhoneNumber ->
            one("Missing author phone number",
                [doc EXCEPT !.Author.PhoneNumber = args[1]])
      [] name = W_authorEmail ->
            one("Missing author email", [doc EXCEPT !.Author.EmailAddress = args[1]])
      [] name = W_authorOrgs ->
            some("Missing author organizations",
                 [doc EXCEPT !.Author.ProfessionalOrgs = args])
      [] name = W_begin -> [d |-> doc, err |-> "nil"]
      [] OTHER -> [d |-> doc, err |-> "Unrecognized directive"]

-----------------------------------------------------------------------------
(* The body phase: directives.                                             *)

\* lexDirective's loop reading the raw argument up to and including the newline
readRawArg(f) ==
    LET stop == FirstIndex(f, {"\n"}) IN
    IF stop > Len(f.src)
    THEN [text |-> SubSeq(f.src, f.pos, Len(f.src)), err |-> "EOF", fin |-> AtEnd(f)]
    ELSE [text |-> SubSeq(f.src, f.pos, stop - 1), err |-> "nil",
          fin |-> [f EXCEPT !.pos = stop + 1, !.last = TRUE]]

\* the element lexDirective returns for a directive with an argument
\* (none for a note: e stays nil)
directiveElement(name, arg) ==
    IF name = W_chapter THEN <<ChapterBreak(arg)>>
    ELSE IF name = W_part THEN <<PartBreak(arg)>>
    ELSE IF name = W_prologue THEN <<PrologueBreak(arg)>>
    ELSE <<>>

\* e is the sequence of the elements returned: empty for Go's nil
lexDirective(f) ==
    LET rd == ReadRune(f) IN
    IF rd.r # "@"
    THEN [e |-> <<>>, err |-> "Missing '@' in directive", fin |-> rd.fin,
          eofAt |-> "none"]
    ELSE LET w == readWord(rd.fin) IN
         IF w.err # "nil"
         THEN [e |-> <<>>, err |-> w.err, fin |-> w.fin, eofAt |-> "lexDirective.name"]
         ELSE IF w.text = W_scene
         THEN [e |-> <<SceneBreak>>, err |-> "nil", fin |-> w.fin, eofAt |-> "none"]
         ELSE IF w.text \notin {W_chapter, W_part, W_prologue, W_note}
         THEN [e |-> <<>>, err |-> "Invalid directive", fin |-> w.fin,
               eofAt |-> "none"]
         ELSE LET a == readRawArg(w.fin) IN
              IF a.err # "nil"
              THEN [e |-> <<>>, err |-> a.err, fin |-> a.fin,
                    eofAt |-> "lexDirective.arg"]
              ELSE [e |-> directiveElement(w.text, TrimSpace(a.text)),
                    err |-> "nil", fin |-> a.fin, eofAt |-> "none"]

-----------------------------------------------------------------------------
(* The body phase: one iteration of lexParagraph's loop.  The result says  *)
(* how the iteration ends: "continue" (the loop goes on), "break" (the     *)
(* paragraph is terminated: the loop is left and the paragraph-break is    *)
(* appended to es) or "return" (a read failed).                            *)

\* a slip of starGroup: after "**" and another character both that character
\* and the second '*' are pushed back
starGroupUnreadsTwice(f) ==
    LET r2 == ReadRune(f) IN
    IF r2.err # "nil"
    THEN [err |-> r2.err, fin |-> r2.fin, flipBold |-> FALSE, flipItalic |-> TRUE]
    ELSE IF r2.r = "*"
    THEN LET r3 == ReadRune(r2.fin) IN
         IF r3.err # "nil"
         THEN [err |-> r3.err, fin |-> r3.fin, flipBold |-> TRUE,
               flipItalic |-> FALSE]
         ELSE IF r3.r = "*"
         THEN [err |-> "nil", fin |-> r3.fin, flipBold |-> TRUE, flipItalic |-> TRUE]
         ELSE [err |-> "nil", fin |-> UnreadRune(UnreadRune(r3.fin)),
               flipBold |-> FALSE, flipItalic |-> TRUE]
    ELSE [err |-> "nil", fin |-> UnreadRune(r2.fin), flipBold |-> FALSE,
          flipItalic |-> TRUE]

\* the '*' branch up to the flush: which toggles the group of '*' flips
starGroup(f) ==
    LET r2 == ReadRune(f) IN
    IF r2.err # "nil"
    THEN [err |-> r2.err, fin |-> r2.fin, flipBold |-> FALSE, flipItalic |-> TRUE]
    ELSE IF r2.r = "*"
    THEN LET r3 == ReadRune(r2.fin) IN
         IF r3.err # "nil"
         THEN [err |-> r3.err, fin |-> r3.fin, flipBold |-> TRUE,
               flipItalic |-> FALSE]
         ELSE IF r3.r = "*"
         THEN [err |-> "nil", fin |-> r3.fin, flipBold |-> TRUE, flipItalic |-> TRUE]
         ELSE [err |-> "nil", fin |-> UnreadRune(r3.fin), flipBold |-> TRUE,
               flipItalic |-> FALSE]
    ELSE [err |-> "nil", fin |-> UnreadRune(r2.fin), flipBold |-> FALSE,
          flipItalic |-> TRUE]

\* es with the buffered text appended as one run, when there is any
flushNonEmpty(elems, text, b, i) ==
    IF Len(text) # 0 THEN Append(elems, formatText(text, b, i)) ELSE elems

\* a slip of newlineBranch: the character that ends the paragraph is consumed
newlineBranchConsumesTerminator(cur, rd) ==
    IF rd.err # "nil"
    THEN [cur EXCEPT !.kind = "return", !.err = rd.err, !.fin = rd.fin,
                     !.eofAt = "lexParagraph.newline",
                     !.es = IF rd.err = "EOF"
                            THEN flushNonEmpty(cur.es, cur.buf, cur.bold, cur.italic)
                            ELSE cur.es]
    ELSE IF rd.r = "\n" \/ rd.r = "@"
    THEN [cur EXCEPT !.kind = "break", !.fin = rd.fin,
                     !.es = Append(flushNonEmpty(cur.es, cur.buf, cur.bold,
                                                 cur.italic),
                                   ParagraphBreak)]
    ELSE [cur EXCEPT !.fin = UnreadRune(rd.fin), !.buf = addWhitespace(cur.buf)]

\* the '\n' branch, rd being the read of the character after the newline
newlineBranch(cur, rd) ==
    IF rd.err # "nil"
    THEN [cur EXCEPT !.kind = "return", !.err = rd.err, !.fin = rd.fin,
                     !.eofAt = "lexParagraph.newline",
                     !.es = IF rd.err = "EOF"
                            THEN flushNonEmpty(cur.es, cur.buf, cur.bold, cur.italic)
                            ELSE cur.es]
    ELSE IF rd.r = "\n" \/ rd.r = "@"
    THEN [cur EXCEPT !.kind = "break", !.fin = UnreadRune(rd.fin),
                     !.es = Append(flushNonEmpty(cur.es, cur.buf, cur.bold,
                                                 cur.italic),
                                   ParagraphBreak)]
    ELSE [cur EXCEPT !.fin = UnreadRune(rd.fin), !.buf = addWhitespace(cur.buf)]

\* a slip of escapeBranch: the backslash is kept in the text
escapeBranchKeepsBackslash(cur, rd) ==
    IF rd.err # "nil"
    THEN [cur EXCEPT !.kind = "return", !.err = rd.err, !.fin = rd.fin,
                     !.eofAt = "lexParagraph.escape"]
    ELSE [cur EXCEPT !.fin = rd.fin, !.buf = cur.buf \o <<"\\", rd.r>>]

\* the '\\' branch, rd being the read of the escaped character
escapeBranch(cur, rd) ==
    IF rd.err # "nil"
    THEN [cur EXCEPT !.kind = "return", !.err = rd.err, !.fin = rd.fin,
                     !.eofAt = "lexParagraph.escape"]
    ELSE [cur EXCEPT !.fin = rd.fin, !.buf = Append(cur.buf, rd.r)]

\* the '*' branch, f being the reader after the first '*'
\* a slip of starBranch: no run is emitted when no text is pending
starBranchSkipsEmpty(cur, f) ==
    LET g == starGroup(f) IN
    IF g.err # "nil"
    THEN [cur EXCEPT !.kind = "return", !.err = g.err, !.fin = g.fin,
                     !.eofAt = "lexParagraph.star"]
    ELSE [cur EXCEPT !.fin = g.fin,
                     !.es = flushNonEmpty(cur.es, cur.buf, cur.bold, cur.italic),
                     !.buf = <<>>,
                     !.bold = IF g.flipBold THEN ~cur.bold ELSE cur.bold,
                     !.italic = IF g.flipItalic THEN ~cur.italic ELSE cur.italic]

starBranch(cur, f) ==
    LET g == starGroup(f) IN
    IF g.err # "nil"
    THEN [cur EXCEPT !.kind = "return", !.err = g.err, !.fin = g.fin,
                     !.eofAt = "lexParagraph.star"]
    ELSE [cur EXCEPT !.fin = g.fin,
                     !.es = Append(cur.es, formatText(cur.buf, cur.bold, cur.italic)),
                     !.buf = <<>>,
                     !.bold = IF g.flipBold THEN ~cur.bold ELSE cur.bold,
                     !.italic = IF g.flipItalic THEN ~cur.italic ELSE cur.italic]

\* a slip of lexParagraphStep: a '@' inside a line ends the paragraph
lexParagraphStepSigilEnds(f, elems, text, b, i) ==
    LET cur == [kind |-> "continue", err |-> "nil", fin |-> f, es |-> elems,
                buf |-> text, bold |-> b, italic |-> i, eofAt |-> "none"]
        rd == ReadRune(f)
    IN  IF rd.err # "nil"
        THEN [cur EXCEPT !.kind = "return", !.err = rd.err, !.fin = rd.fin,
                         !.eofAt = "lexParagraph.top"]
        ELSE IF rd.r = "\n" THEN newlineBranch(cur, ReadRune(rd.fin))
        ELSE IF rd.r = "@"
             THEN [cur EXCEPT !.kind = "break", !.fin = UnreadRune(rd.fin),
                              !.es = Append(flushNonEmpty(elems, text, b, i),
                                            ParagraphBreak)]
        ELSE IF IsSpace(rd.r)
             THEN [cur EXCEPT !.fin = rd.fin, !.buf = addWhitespace(text)]
        ELSE IF rd.r = "\\" THEN escapeBranch(cur, ReadRune(rd.fin))
        ELSE IF rd.r = "*" THEN starBranch(cur, rd.fin)
        ELSE [cur EXCEPT !.fin = rd.fin, !.buf = Append(text, rd.r)]

lexParagraphStep(f, elems, text, b, i) ==
    LET cur == [kind |-> "continue", err |-> "nil", fin |-> f, es |-> elems,
                buf |-> text, bold |-> b, italic |-> i, eofAt |-> "none"]
        rd == ReadRune(f)
    IN  IF rd.err # "nil"
        THEN [cur EXCEPT !.kind = "return", !.err = rd.err, !.fin = rd.fin,
                         !.eofAt = "lexParagraph.top"]
        ELSE IF rd.r = "\n" THEN newlineBranch(cur, ReadRune(rd.fin))
        ELSE IF IsSpace(rd.r)
             THEN [cur EXCEPT !.fin = rd.fin, !.buf = addWhitespace(text)]
        ELSE IF rd.r = "\\" THEN escapeBranch(cur, ReadRune(rd.fin))
        ELSE IF rd.r = "*" THEN starBranch(cur, rd.fin)
        ELSE [cur EXCEPT !.fin = rd.fin, !.buf = Append(text, rd.r)]

-----------------------------------------------------------------------------
(* Parse.  One action per iteration of its loops: lexMetadata is one       *)
(* iteration of lexMetadata's loop, lexParagraphOrDirective one iteration  *)
(* of Parse's loop up to the return of a directive or the entry into       *)
(* lexParagraph, and lexParagraph one iteration of lexParagraph's loop     *)
(* with, when the paragraph ends, Parse's handling of what it returns.     *)

\* a slip of lexParagraphOrDirective: lexParagraph is entered with bold set
lexParagraphOrDirectiveCallEntersBold(f) ==
    LET none == [kind |-> "return", err |-> "nil", fin |-> f, es |-> <<>>,
                 buf |-> <<>>, bold |-> FALSE, italic |-> FALSE, eofAt |-> "none"]
        ew == eatWhitespace(f)
        rd == ReadRune(ew.fin)
        ld == lexDirective(UnreadRune(rd.fin))
    IN  IF ew.err # "nil"
        THEN [none EXCEPT !.err = ew.err, !.fin = ew.fin,
                          !.eofAt = "lexParagraphOrDirective.eatWhitespace"]
        ELSE IF rd.err # "nil"
        THEN [none EXCEPT !.err = rd.err, !.fin = rd.fin,
                          !.eofAt = "lexParagraphOrDirective.peek"]
        ELSE IF rd.r = "@"
        THEN [none EXCEPT !.err = ld.err, !.fin = ld.fin, !.es = ld.e,
                          !.eofAt = ld.eofAt]
        ELSE [none EXCEPT !.kind = "continue", !.fin = UnreadRune(rd.fin),
                          !.bold = TRUE]

\* lexParagraphOrDirective up to the entry into lexParagraph's loop: the result
\* is a "return" of (es, err), or "continue" when lexParagraph is entered
lexParagraphOrDirectiveCall(f) ==
    LET none == [kind |-> "return", err |-> "nil", fin |-> f, es |-> <<>>,
                 buf |-> <<>>, bold |-> FALSE, italic |-> FALSE, eofAt |-> "none"]
        ew == eatWhitespace(f)
        rd == ReadRune(ew.fin)
        ld == lexDirective(UnreadRune(rd.fin))
    IN  IF ew.err # "nil"
        THEN [none EXCEPT !.err = ew.err, !.fin = ew.fin,
                          !.eofAt = "lexParagraphOrDirective.eatWhitespace"]
        ELSE IF rd.err # "nil"
        THEN [none EXCEPT !.err = rd.err, !.fin = rd.fin,
                          !.eofAt = "lexParagraphOrDirective.peek"]
        ELSE IF rd.r = "@"
        THEN [none EXCEPT !.err = ld.err, !.fin = ld.fin, !.es = ld.e,
                          !.eofAt = ld.eofAt]
        ELSE [none EXCEPT !.kind = "continue", !.fin = UnreadRune(rd.fin)]

\* a slip of ParseReturn: the tree is built from what was scanned before an error
ParseReturnBuildsOnError(st) ==
    LET text == d.Text \o st.es IN
    /\ es' = <<>> /\ buf' = <<>> /\ bold' = FALSE /\ italic' = FALSE
    /\ IF st.err # "nil"
       THEN /\ d' = [d EXCEPT !.Text = text, !.Parts = parseText(text)]
            /\ err' = IF st.err = "EOF" THEN "nil" ELSE st.err
            /\ pc' = "done"
       ELSE /\ d' = [d EXCEPT !.Text = text]
            /\ err' = "nil"
            /\ pc' = "body"

\* Parse's loop body on what lexParagraphOrDirective returned: (st.es, st.err)
ParseReturn(st) ==
    LET text == d.Text \o st.es IN
    /\ es' = <<>> /\ buf' = <<>> /\ bold' = FALSE /\ italic' = FALSE
    /\ IF st.err = "EOF"
       THEN /\ d' = [d EXCEPT !.Text = text, !.Parts = parseText(text)]
            /\ err' = "nil"
            /\ pc' = "done"
       ELSE IF st.err # "nil"
       THEN /\ d' = d
            /\ err' = st.err
            /\ pc' = "done"
       ELSE /\ d' = [d EXCEPT !.Text = text]
            /\ err' = "nil"
            /\ pc' = "body"

\* the scanner moves on by st: it stays in (or enters) lexParagraph's loop, or
\* lexParagraphOrDirective returns to Parse
ParseStep(st) ==
    /\ fin' = st.fin
    /\ UNCHANGED <<count, words, labels>>
    /\ IF st.kind = "continue"
       THEN /\ pc' = "para"
            /\ es' = st.es /\ buf' = st.buf
            /\ bold' = st.bold /\ italic' = st.italic
            /\ UNCHANGED <<d, err, eofAt>>
       ELSE /\ eofAt' = st.eofAt
            /\ ParseReturn(st)

-----------------------------------------------------------------------------
(* The inputs Parse is run on.                                             *)

\* longest body of single characters after the header
MaxChars == 5
\* most lines of a body made of whole lines
MaxLines == 3

\* the shortest header lexMetadata accepts: "@begin\n"
Header == <<"@">> \o W_begin \o <<"\n">>

Prefixes(s) == { SubSeq(s, 1, n) : n \in 0..Len(s) }

\* every body of at most MaxChars characters of paragraph text
BodyChars == {"a", " ", "\n", "*", "\\", "@"}
CharInputs ==
    { Header \o b : b \in UNION { [1..n -> BodyChars] : n \in 0..MaxChars } }

\* every body of at most MaxLines lines, cut off at every position
BodyLines ==
    { <<"@">> \o W_part \o <<" ", "P", "\n">>,
      <<"@">> \o W_chapter \o <<"\n">>,
      <<"@">> \o W_prologue \o <<"\n">>,
      <<"@">> \o W_scene \o <<"\n">>,
      <<"@">> \o W_note \o <<" ", "n", "\n">>,
      <<"a", "\n">>,
      <<"\n">> }

RECURSIVE Concat(_)
Concat(ls) == IF ls = <<>> THEN <<>> ELSE ls[1] \o Concat(Tail(ls))

LineInputs ==
    UNION { Prefixes(Header \o Concat(ls)) :
              ls \in UNION { [1..n -> BodyLines] : n \in 0..MaxLines } }

\* "@type shortStory\n@title T\n@authorByline A\n@begin\nHello *world*.\n"
ScenarioA ==
    <<"@", "t", "y", "p", "e", " ", "s", "h", "o", "r", "t", "S", "t", "o",
      "r", "y", "\n", "@", "t", "i", "t", "l", "e", " ", "T", "\n", "@",
      "a", "u", "t", "h", "o", "r", "B", "y", "l", "i", "n", "e", " ", "A",
      "\n", "@", "b", "e", "g", "i", "n", "\n", "H", "e", "l", "l", "o",
      " ", "*", "w", "o", "r", "l", "d", "*", ".", "\n">>

\* "@type shortStory\n@title T\n@authorByline A\n@begin\n"
\*   \o "@chapter One\nText.\n@chapter Two\nMore.\n"
ScenarioB ==
    <<"@", "t", "y", "p", "e", " ", "s", "h", "o", "r", "t", "S", "t", "o",
      "r", "y", "\n", "@", "t", "i", "t", "l", "e", " ", "T", "\n", "@",
      "a", "u", "t", "h", "o", "r", "B", "y", "l", "i", "n", "e", " ", "A",
      "\n", "@", "b", "e", "g", "i", "n", "\n", "@", "c", "h", "a", "p",
      "t", "e", "r", " ", "O", "n", "e", "\n", "T", "e", "x", "t", ".",
      "\n", "@", "c", "h", "a", "p", "t", "e", "r", " ", "T", "w", "o",
      "\n", "M", "o", "r", "e", ".", "\n">>

ScenarioInputs == Prefixes(ScenarioA) \cup Prefixes(ScenarioB)

Inputs == CharInputs \cup LineInputs \cup ScenarioInputs

Init ==
    /\ \E rawFIN \in Inputs : fin = NewReader(rawFIN)
    /\ pc = "meta"
    /\ d = Document
    /\ err = "nil"
    /\ es = <<>>
    /\ buf = <<>>
    /\ bold = FALSE
    /\ italic = FALSE
    /\ eofAt = "none"
    /\ count = 0
    /\ words = 0
    /\ labels = <<>>

lexMetadata ==
    /\ pc = "meta"
    /\ LET md == lexMetadataDirective(fin)
           sw == lexMetadataSwitch(d, md.name, md.args)
       IN  /\ fin' = md.fin
           /\ eofAt' = md.eofAt
           /\ IF md.err # "nil"
              THEN d' = d /\ err' = md.err /\ pc' = "done"
              ELSE /\ d' = sw.d
                   /\ err' = sw.err
                   /\ pc' = IF sw.err # "nil" THEN "done"
                            ELSE IF md.name = W_begin THEN "body" ELSE "meta"
    /\ UNCHANGED <<es, buf, bold, italic, count, words, labels>>

lexParagraphOrDirective ==
    /\ pc = "body"
    /\ ParseStep(lexParagraphOrDirectiveCall(fin))

lexParagraph ==
    /\ pc = "para"
    /\ ParseStep(lexParagraphStep(fin, es, buf, bold, italic))

Next == lexMetadata \/ lexParagraphOrDirective \/ lexParagraph

Spec == Init /\ [][Next]_vars

-----------------------------------------------------------------------------
(* Parse on inputs that exercise the metadata phase: one directive with    *)
(* its argument lines, after an optional notes section, followed by more   *)
(* directives, by the body, or by the end of the input.                    *)

\* most argument lines given to one directive
MaxArgLines == 2

W_bogus == <<"b", "o", "g", "u", "s">>

\* the names lexMetadata's switch has a case for, @begin apart
SingleValueNames ==
    { W_type, W_title, W_shortTitle, W_authorByline, W_authorName,
      W_authorShortName, W_authorPhoneNumber, W_authorEmail }
ListNames == { W_authorAddress, W_authorOrgs }
MetaNames == SingleValueNames \cup ListNames \cup { W_notes }

\* argument lines: "novel\n", "x@y\n" and " l\n"
ValueLines ==
    { <<"n", "o", "v", "e", "l", "\n">>, <<"x", "@", "y", "\n">>,
      <<" ", "l", "\n">> }

\* "@name\n", or "@name " and up to MaxArgLines argument lines
Block(name, ls) ==
    <<"@">> \o name \o (IF ls = <<>> THEN <<"\n">> ELSE <<" ">> \o Concat(ls))

Blocks ==
    { Block(name, ls) :
        name \in MetaNames \cup { W_bogus },
        ls \in UNION { [1..n -> ValueLines] : n \in 0..MaxArgLines } }

\* what may stand before the directive: nothing, or "@notes\nl\n"
MetaLeads == { <<>>, <<"@">> \o W_notes \o <<"\n", "l", "\n">> }

\* what may follow the directive
MetaTails ==
    { <<>>,
      Header,
      Header \o <<"a", "\n", "\n", "@">> \o W_bogus \o <<"\n">>,
      Header \o <<"@">> \o W_bogus,
      <<"@">> \o W_bogus \o <<"\n">> \o Header,
      <<"@">> \o W_bogus,
      <<"@">> \o W_title \o <<" ", "T", "\n">> \o Header \o <<"a", "\n">> }

\* "@authorAddress line1\nline2\n@authorEmail x@y.com\n@begin\n"
ScenarioE ==
    <<"@", "a", "u", "t", "h", "o", "r", "A", "d", "d", "r", "e", "s", "s",
      " ", "l", "i", "n", "e", "1", "\n", "l", "i", "n", "e", "2", "\n",
      "@", "a", "u", "t", "h", "o", "r", "E", "m", "a", "i", "l", " ", "x",
      "@", "y", ".", "c", "o", "m", "\n", "@", "b", "e", "g", "i", "n",
      "\n">>

MetaInputs ==
    { lead \o b \o tail : lead \in MetaLeads, b \in Blocks, tail \in MetaTails }
    \cup { ScenarioE }

InitMeta ==
    /\ \E rawFIN \in MetaInputs : fin = NewReader(rawFIN)
    /\ pc = "meta"
    /\ d = Document
    /\ err = "nil"
    /\ es = <<>>
    /\ buf = <<>>
    /\ bold = FALSE
    /\ italic = FALSE
    /\ eofAt = "none"
    /\ count = 0
    /\ words = 0
    /\ labels = <<>>

SpecMeta == InitMeta /\ [][Next]_vars

-----------------------------------------------------------------------------
(* Document.WordCount.  The texts the model holds are short, so the state   *)
(* WordCount starts from here is one inside its loop over a long            *)
(* Document.Text: count holds the words of the elements already visited and *)
(* Document.Text the elements still to visit.                               *)

\* most elements still to visit
MaxRuns == 3

\* strings.Split(s, sep): the pieces of s between the occurrences of sep
RECURSIVE Split(_, _)
Split(s, sep) ==
    LET hits == { i \in 1..Len(s) : s[i] = sep } IN
    IF hits = {} THEN <<s>>
    ELSE LET k == CHOOSE i \in hits : \A j \in hits : i <= j IN
         <<SubSeq(s, 1, k - 1)>> \o Split(SubSeq(s, k + 1, Len(s)), sep)

\* the loop of WordCount over the elements text, from the count c
RECURSIVE countLoop(_, _)
countLoop(c, text) ==
    IF text = <<>> THEN c
    ELSE countLoop(IF text[1].type \in TextTypes
                   THEN c + Len(Split(text[1].text, " "))
                   ELSE c,
                   Tail(text))

granularity(c) == IF c > 15000 THEN 500 ELSE 100

\* a slip of roundCount: the count is rounded down
roundCountDown(c) == granularity(c) * (c \div granularity(c))

\* granularity * math.Floor(count / granularity + 0.5); the quotient's fraction
\* is a multiple of 1/500, so the floating point sum is on the integer's side
\* that the exact sum is on
roundCount(c) ==
    granularity(c) * ((2 * c + granularity(c)) \div (2 * granularity(c)))

CountElements ==
    { PlainText(<<"a", " ", "b">>), ItalicText(<<>>), BoldText(<<"a">>),
      BoldItalicText(<<" ">>), ParagraphBreak, ChapterBreak(<<"a", " ", "b">>) }

CountTexts == UNION { [1..n -> CountElements] : n \in 0..MaxRuns }

\* the words of the elements already visited: counts around the multiples of
\* 100 and 500 and around the change of granularity
CountsSoFar ==
    { 0, 44, 49, 50, 100, 149, 14944, 14949, 14950, 14994, 14999, 15000,
      15001, 15044, 15049, 15050, 15244, 15249, 15250, 15500, 15749 }

InitCount ==
    /\ fin = [src |-> <<>>, pos |-> 1, last |-> FALSE, unreadErr |-> FALSE]
    /\ pc = "count"
    /\ \E t \in CountTexts : d = [Document EXCEPT !.Text = t]
    /\ err = "nil"
    /\ es = <<>>
    /\ buf = <<>>
    /\ bold = FALSE
    /\ italic = FALSE
    /\ eofAt = "none"
    /\ count \in CountsSoFar
    /\ words = 0
    /\ labels = <<>>

WordCount ==
    /\ pc = "count"
    /\ count' = countLoop(count, d.Text)
    /\ words' = roundCount(count')
    /\ pc' = "counted"
    /\ UNCHANGED <<fin, d, err, es, buf, bold, italic, eofAt, labels>>

NextCount == WordCount

SpecCount == InitCount /\ [][NextCount]_vars

-----------------------------------------------------------------------------
(* The renderers' chapter labels.  The HTML renderer walks Document.Text   *)
(* and numbers the chapters itself; the bbcode and PDF renderers walk the  *)
(* tree and use Chapter.Number.  labels maps every rendering done to the   *)
(* labels it wrote for the chapters, in the order of the document.         *)

MaxBreaks == 3

\* fmt.Sprintf("%d", n)
RECURSIVE Itoa(_)
Itoa(n) ==
    LET digit(k) == <<"0", "1", "2", "3", "4", "5", "6", "7", "8", "9">>[k + 1] IN
    IF n < 10 THEN <<digit(n)>> ELSE Itoa(n \div 10) \o <<digit(n % 10)>>

W_Chapter == <<"C", "h", "a", "p", "t", "e", "r", " ">>
ColonSpace == <<":", " ">>

\* util.ChapterLabel
ChapterLabel(number, title) ==
    LET text == W_Chapter \o Itoa(number) IN
    IF title # <<>> THEN text \o ColonSpace \o title ELSE text

\* the text of the bbcode renderer's renderChapter for an ordinary chapter
bbcodeChapterText(chapter) ==
    LET text == W_Chapter \o Itoa(chapter.Number) IN
    IF chapter.Title # <<>> THEN text \o ColonSpace \o chapter.Title ELSE text

\* the text of renderTOC's entry for the chapter-break e
tocChapterText(chapterNumber, e) ==
    LET text == W_Chapter \o Itoa(chapterNumber) IN
    IF e # <<>> THEN text \o ColonSpace \o e ELSE text

\* the text of the HTML renderChapter's heading for the chapter-break e: with
\* a title the text is assigned, not appended to
htmlChapterText(chapterNumber, e) ==
    LET text == W_Chapter \o Itoa(chapterNumber) IN
    IF e # <<>> THEN ColonSpace \o e ELSE text

\* the HTML renderer's pass over the elements text, in the body and in the
\* table of contents alike: a part-break resets chapterNumber, a chapter-break
\* increments it and is written with that number
RECURSIVE htmlPass(_, _)
htmlPass(text, chapterNumber) ==
    IF text = <<>> THEN <<>>
    ELSE IF text[1].type = "PartBreak" THEN htmlPass(Tail(text), 0)
    ELSE IF text[1].type = "ChapterBreak"
    THEN <<[number |-> chapterNumber + 1, e |-> text[1].text]>>
         \o htmlPass(Tail(text), chapterNumber + 1)
    ELSE htmlPass(Tail(text), chapterNumber)

\* the ordinary chapters that the tree renderers write a label for
LabelledChapters(parts) ==
    LET cs == Concat([i \in 1..Len(parts) |-> parts[i].Chapters]) IN
    SelectSeq(cs, LAMBDA c : ~c.Anonymous /\ ~c.Prologue)

RenderElements ==
    { ChapterBreak(<<>>), ChapterBreak(<<"T">>), PrologueBreak(<<"T">>),
      PartBreak(<<>>), PlainText(<<"a">>) }

RenderTexts == UNION { [1..n -> RenderElements] : n \in 0..MaxBreaks }

\* a parsed document handed to the renderers
InitRender ==
    /\ fin = [src |-> <<>>, pos |-> 1, last |-> FALSE, unreadErr |-> FALSE]
    /\ pc = "render"
    /\ \E t \in RenderTexts : d = [Document EXCEPT !.Text = t, !.Parts = parseText(t)]
    /\ err = "nil"
    /\ es = <<>>
    /\ buf = <<>>
    /\ bold = FALSE
    /\ italic = FALSE
    /\ eofAt = "none"
    /\ count = 0
    /\ words = 0
    /\ labels = <<>>

\* the rendering named path has written the labels ls
Rendered(path, ls) ==
    /\ pc = "render"
    /\ path \notin DOMAIN labels
    /\ labels' = [q \in DOMAIN labels \cup {path} |->
                    IF q = path THEN ls ELSE labels[q]]
    /\ UNCHANGED <<fin, pc, d, err, es, buf, bold, italic, eofAt, count, words>>

\* html: Render's loop of renderPart and renderChapter
htmlRender ==
    Rendered("html",
             LET cs == htmlPass(d.Text, 0) IN
             [i \in 1..Len(cs) |-> htmlChapterText(cs[i].number, cs[i].e)])

\* html: renderTOC
htmlRenderTOC ==
    Rendered("toc",
             LET cs == htmlPass(d.Text, 0) IN
             [i \in 1..Len(cs) |-> tocChapterText(cs[i].number, cs[i].e)])

\* bbcode: Render's loops of renderPart and renderChapter
bbcodeRender ==
    Rendered("bbcode",
             LET cs == LabelledChapters(d.Parts) IN
             [i \in 1..Len(cs) |-> bbcodeChapterText(cs[i])])

\* pdf: the bookmarks of renderChapter
pdfRender ==
    Rendered("pdf",
             LET cs == LabelledChapters(d.Parts) IN
             [i \in 1..Len(cs) |-> ChapterLabel(cs[i].Number, cs[i].Title)])

NextRender == htmlRender \/ htmlRenderTOC \/ bbcodeRender \/ pdfRender

SpecRender == InitRender /\ [][NextRender]_vars

-----------------------------------------------------------------------------
(* Parse as a function of the input: the loops of lexParagraph, Parse and  *)
(* lexMetadata run to their end, built from the same steps as the actions. *)

\* lexParagraph's loop, from the state st of one iteration on
RECURSIVE lexParagraphLoop(_)
lexParagraphLoop(st) ==
    IF st.kind # "continue" THEN st
    ELSE lexParagraphLoop(lexParagraphStep(st.fin, st.es, st.buf, st.bold, st.italic))

\* Parse's loop over lexParagraphOrDirective, from the reader f and Document doc
RECURSIVE ParseLoop(_, _)
ParseLoop(f, doc) ==
    LET st == lexParagraphLoop(lexParagraphOrDirectiveCall(f))
        text == doc.Text \o st.es
    IN  IF st.err = "EOF"
        THEN [d |-> [doc EXCEPT !.Text = text, !.Parts = parseText(text)],
              err |-> "nil"]
        ELSE IF st.err # "nil" THEN [d |-> doc, err |-> st.err]
        ELSE ParseLoop(st.fin, [doc EXCEPT !.Text = text])

\* lexMetadata's loop
RECURSIVE lexMetadataLoop(_, _)
lexMetadataLoop(f, doc) ==
    LET md == lexMetadataDirective(f)
        sw == lexMetadataSwitch(doc, md.name, md.args)
    IN  IF md.err # "nil" THEN [d |-> doc, err |-> md.err, fin |-> md.fin]
        ELSE IF sw.err # "nil" \/ md.name = W_begin
        THEN [d |-> sw.d, err |-> sw.err, fin |-> md.fin]
        ELSE lexMetadataLoop(md.fin, sw.d)

\* the Document and the error Parse returns for the input rawFIN
Parse(rawFIN) ==
    LET m == lexMetadataLoop(NewReader(rawFIN), Document) IN
    IF m.err # "nil" THEN [d |-> m.d, err |-> m.err]
    ELSE ParseLoop(m.fin, m.d)

-----------------------------------------------------------------------------
(* Helpers for stating properties of the tree.                             *)

TreeBuilt == pc \in {"built", "done"} /\ err = "nil"

IsNumbered(u) == ~u.Anonymous
IsOrdinaryChapter(c) == ~c.Anonymous /\ ~c.Prologue
IsPrologue(c) == ~c.Anonymous /\ c.Prologue
IsPartBreak(e) == e.type = "PartBreak"
IsChapterOrPrologueBreak(e) == e.type \in {"ChapterBreak", "PrologueBreak"}

\* s[1..Len(s)] carry Number 1, 2, ..., Len(s)
NumberedInOrder(s) == \A i \in 1..Len(s) : s[i].Number = i

\* the elements of text that stand before its first part-break
RECURSIVE BeforeFirstPartBreak(_)
BeforeFirstPartBreak(text) ==
    IF text = <<>> \/ IsPartBreak(text[1]) THEN <<>>
    ELSE <<text[1]>> \o BeforeFirstPartBreak(Tail(text))

-----------------------------------------------------------------------------
(* C1: the non-anonymous Parts of Document.Parts carry Number 1, 2, ..., N *)
(* in document order, without gap or repeat; an anonymous Part carries     *)
(* Number 0 and does not advance the Part counter.                         *)
C1_PartNumbering ==
    TreeBuilt =>
        /\ NumberedInOrder(SelectSeq(d.Parts, IsNumbered))
        /\ \A i \in 1..Len(d.Parts) :
               d.Parts[i].Anonymous => d.Parts[i].Number = 0

\* an anonymous Part followed by two numbered Parts
C1_Witness ==
    /\ TreeBuilt
    /\ Len(d.Parts) = 3
    /\ d.Parts[1].Anonymous /\ d.Parts[1].Number = 0
    /\ d.Parts[2].Number = 1 /\ d.Parts[3].Number = 2

(* C2: inside every Part the non-anonymous ordinary Chapters are numbered  *)
(* 1..N in order and the non-anonymous prologues 1..M in order, each kind  *)
(* by a counter of its own that restarts at every Part; an anonymous       *)
(* Chapter carries Number 0 and advances neither counter.                  *)
C2_ChapterNumbering ==
    TreeBuilt =>
        \A i \in 1..Len(d.Parts) :
            LET cs == d.Parts[i].Chapters IN
            /\ NumberedInOrder(SelectSeq(cs, IsOrdinaryChapter))
            /\ NumberedInOrder(SelectSeq(cs, IsPrologue))
            /\ \A j \in 1..Len(cs) : cs[j].Anonymous => cs[j].Number = 0

\* a Part with chapter 1, prologue 1, chapter 2, then a Part whose chapter is 1 again
C2_Witness ==
    /\ TreeBuilt
    /\ Len(d.Parts) = 2
    /\ Len(d.Parts[1].Chapters) = 3
    /\ ~d.Parts[1].Chapters[1].Prologue /\ d.Parts[1].Chapters[1].Number = 1
    /\ d.Parts[1].Chapters[2].Prologue /\ d.Parts[1].Chapters[2].Number = 1
    /\ ~d.Parts[1].Chapters[3].Prologue /\ d.Parts[1].Chapters[3].Number = 2
    /\ Len(d.Parts[2].Chapters) = 1
    /\ IsOrdinaryChapter(d.Parts[2].Chapters[1])
    /\ d.Parts[2].Chapters[1].Number = 1

(* C3: only a leading group is anonymous.  Document.Parts holds at most    *)
(* one anonymous Part, the first, and holds it exactly when Document.Text  *)
(* is non-empty and does not begin with a part-break; every Part holds at  *)
(* most one anonymous Chapter, its first.  Every part-break opens one more *)
(* Part, and the anonymous Part holds every chapter introduced before the  *)
(* first part-break: a body without part-break yields exactly one Part,    *)
(* anonymous, holding all the chapters.                                    *)
C3_AnonymousOnlyLeading ==
    TreeBuilt =>
        LET leading == d.Text # <<>> /\ ~IsPartBreak(d.Text[1]) IN
        /\ \A i \in 1..Len(d.Parts) : d.Parts[i].Anonymous => i = 1
        /\ (d.Parts # <<>> /\ d.Parts[1].Anonymous) <=> leading
        /\ \A i \in 1..Len(d.Parts) :
               \A j \in 1..Len(d.Parts[i].Chapters) :
                   d.Parts[i].Chapters[j].Anonymous => j = 1
        /\ Len(d.Parts) = (IF leading THEN 1 ELSE 0)
                          + Len(SelectSeq(d.Text, IsPartBreak))
        /\ leading =>
               Len(SelectSeq(d.Parts[1].Chapters, IsNumbered))
                 = Len(SelectSeq(BeforeFirstPartBreak(d.Text),
                                 IsChapterOrPrologueBreak))

\* two chapter directives and no part directive: one anonymous Part, two Chapters
C3_Witness ==
    /\ TreeBuilt
    /\ Len(SelectSeq(d.Text, IsPartBreak)) = 0
    /\ Len(SelectSeq(d.Text, IsChapterOrPrologueBreak)) = 2
    /\ Len(d.Parts) = 1 /\ d.Parts[1].Anonymous
    /\ Len(d.Parts[1].Chapters) = 2
    /\ d.Parts[1].Chapters[1].Number = 1 /\ d.Parts[1].Chapters[2].Number = 2

-----------------------------------------------------------------------------
(* Helpers for stating properties of the scanner.                          *)

CharAt(i) == IF i \in 1..Len(input) THEN input[i] ELSE NUL
NextChar == CharAt(fin.pos)
Last(s) == s[Len(s)]

\* everything the scanner has emitted so far: Document.Text and, inside
\* lexParagraph, the elements of the paragraph being read
Emitted == d.Text \o es

\* the texts of all runs emitted so far, and the buffered text
RunTexts == { Emitted[i].text : i \in { j \in 1..Len(Emitted) :
                                          Emitted[j].type \in TextTypes } }
            \cup {buf}

NoEscape == \A i \in 1..Len(input) : input[i] # "\\"

\* the number of '*' the group at fin.pos has, counted as lexParagraph counts
StarGroupLen ==
    IF CharAt(fin.pos + 1) # "*" THEN 1
    ELSE IF CharAt(fin.pos + 2) # "*" THEN 2 ELSE 3

\* lexParagraph is about to read a newline that does not end the paragraph
JoiningNewline ==
    /\ NextChar = "\n"
    /\ fin.pos + 1 <= Len(input)
    /\ CharAt(fin.pos + 1) \notin {"\n", "@"}

(* C4: a group of one, two or three '*' toggles italic, bold, or both,     *)
(* whatever the state before; the text buffered before the group is        *)
(* emitted as one run typed by the state in force before the toggle, and   *)
(* the text after the group is buffered under the new state.               *)
C4_StarGroupToggles ==
    [][ (pc = "para" /\ NextChar = "*") =>
          /\ Emitted' = Append(Emitted, formatText(buf, bold, italic))
          /\ pc' = "para" =>
                /\ buf' = <<>>
                /\ bold' = (bold # (StarGroupLen >= 2))
                /\ italic' = (italic # (StarGroupLen \in {1, 3})) ]_vars

(* C5: inside a paragraph a white space character that does not end the    *)
(* paragraph leaves the buffered text ending in one space, adding at most  *)
(* that space and nothing else; for input without escape characters no run *)
(* text holds two adjacent spaces or a white space character other than    *)
(* ' ', and once the paragraph has begun the buffered text ends in a space *)
(* exactly when the last character read was white space, so that           *)
(* contiguous lines are joined by one space.                               *)
C5_WhitespaceStep ==
    (pc = "para" /\ IsSpace(NextChar) /\ (NextChar = "\n" => JoiningNewline)) =>
        /\ pc' = "para"
        /\ es' = es /\ d' = d
        /\ buf' # <<>> /\ Last(buf') = " "
        /\ buf' \in {buf, Append(buf, " ")}
        /\ (buf # <<>> /\ Last(buf) = " ") => buf' = buf

C5_CollapsedText ==
    NoEscape =>
        /\ \A t \in RunTexts :
              /\ \A i \in 1..Len(t) : IsSpace(t[i]) => t[i] = " "
              /\ \A i \in 1..(Len(t) - 1) : ~(t[i] = " " /\ t[i + 1] = " ")
        /\ (pc = "para" /\ ~(es = <<>> /\ buf = <<>>)) =>
              ((buf # <<>> /\ Last(buf) = " ") <=> IsSpace(CharAt(fin.pos - 1)))

C5_WhitespaceCollapse == [][C5_WhitespaceStep]_vars /\ []C5_CollapsedText

\* "a \n a" has been read into the one text "a a"
C5_Witness ==
    /\ pc = "para"
    /\ NoEscape
    /\ buf = <<"a", " ", "a">>
    /\ fin.pos = Len(Header) + 6
    /\ CharAt(Len(Header) + 2) = " "
    /\ CharAt(Len(Header) + 3) = "\n"
    /\ CharAt(Len(Header) + 4) = " "

(* C6: a backslash followed by a character C appends exactly C to the      *)
(* buffered text and does nothing else: bold and italic keep their values, *)
(* no run is emitted, no directive is started and the paragraph goes on;   *)
(* a backslash that is the first character of a paragraph or of a line is  *)
(* read by lexParagraph as any other.                                      *)
C6_EscapeStep ==
    /\ (pc = "para" /\ NextChar = "\\" /\ fin.pos + 1 <= Len(input)) =>
          /\ buf' = Append(buf, CharAt(fin.pos + 1))
          /\ fin'.pos = fin.pos + 2
          /\ UNCHANGED <<pc, es, bold, italic, d, err>>
    /\ (pc = "para" /\ JoiningNewline /\ CharAt(fin.pos + 1) = "\\") =>
          /\ pc' = "para" /\ fin'.pos = fin.pos + 1
          /\ UNCHANGED <<es, bold, italic, d, err>>
    /\ (pc = "body" /\ eatWhitespace(fin).err = "nil"
          /\ CharAt(eatWhitespace(fin).fin.pos) = "\\") =>
          /\ pc' = "para" /\ fin'.pos = eatWhitespace(fin).fin.pos
          /\ buf' = <<>> /\ es' = <<>>
          /\ UNCHANGED <<d, err>>

C6_EscapeLiteral == [][C6_EscapeStep]_vars

\* "\*\@" at the start of a paragraph, then a backslash at the start of a line
C6_Witness ==
    /\ pc = "para"
    /\ CharAt(Len(Header) + 1) = "\\"
    /\ CharAt(fin.pos - 2) = "\\" /\ CharAt(fin.pos - 1) = "@"
    /\ buf = <<"*", " ", "@">>
    /\ es = <<>> /\ ~bold /\ ~italic

(* C7: when the input ends inside a paragraph, Parse returns no error and  *)
(* the text buffered since the last flush, when non-empty, is the final    *)
(* run of Document.Text.                                                   *)
C7_EndOfInputFlushes ==
    [][ (pc = "para" /\ pc' = "done" /\ eofAt' # "lexParagraph.escape") =>
          /\ err' = "nil"
          /\ buf # <<>> =>
                /\ d'.Text # <<>>
                /\ Last(d'.Text) = formatText(buf, bold, italic) ]_vars

(* C8: when the input ends while a directive argument is being read, or    *)
(* right after an escape backslash, Parse fails and returns no tree.       *)
C8_EndOfInputInArgumentFails ==
    (pc = "done" /\ eofAt \in {"lexMetadataDirective.arg", "lexDirective.arg",
                               "lexParagraph.escape"})
        => (err = "EOF" /\ d.Parts = <<>>)

(* C9: every Part has at least one Chapter and every Chapter at least one  *)
(* Scene; a trailing part-, chapter- or prologue-break yields no unit.     *)
C9_NoEmptyPartOrChapter ==
    TreeBuilt =>
        \A i \in 1..Len(d.Parts) :
            /\ Len(d.Parts[i].Chapters) >= 1
            /\ \A j \in 1..Len(d.Parts[i].Chapters) :
                   Len(d.Parts[i].Chapters[j].Scenes) >= 1

(* C10: every Scene has at least one Paragraph and every Paragraph at      *)
(* least one run, also when two boundary markers are adjacent.             *)
C10_NoEmptySceneOrParagraph ==
    TreeBuilt =>
        \A i \in 1..Len(d.Parts) :
            \A j \in 1..Len(d.Parts[i].Chapters) :
                \A k \in 1..Len(d.Parts[i].Chapters[j].Scenes) :
                    LET ps == d.Parts[i].Chapters[j].Scenes[k].Paragraphs IN
                    /\ Len(ps) >= 1
                    /\ \A l \in 1..Len(ps) : Len(ps[l].Text) >= 1

-----------------------------------------------------------------------------
(* Helpers for relating the Scenes of the tree to Document.Text.           *)

IsSceneBreak(e) == e.type = "SceneBreak"
IsRun(e) == e.type \in TextTypes

\* the index of the i-th element of s that passes Test
NthWhere(s, Test(_), i) ==
    CHOOSE p \in 1..Len(s) :
        Test(s[p]) /\ Cardinality({ q \in 1..p : Test(s[q]) }) = i

\* the Chapters of all Parts, in document order
AllChapters == Concat([i \in 1..Len(d.Parts) |-> d.Parts[i].Chapters])

\* the Scenes of all Chapters, in document order, each with whether it is the
\* last Scene of its Chapter
AllScenes ==
    Concat([j \in 1..Len(AllChapters) |->
              [k \in 1..Len(AllChapters[j].Scenes) |->
                  [s |-> AllChapters[j].Scenes[k],
                   last |-> k = Len(AllChapters[j].Scenes)]]])

EndsWithBreak(x) == x.s.EndsWithSceneBreak

\* the runs of the Paragraphs of the first n Scenes of sc, in order
RunsUpTo(sc, n) ==
    Concat([m \in 1..n |->
              Concat([l \in 1..Len(sc[m].s.Paragraphs) |->
                        sc[m].s.Paragraphs[l].Text])])

(* C11: the Scenes with EndsWithSceneBreak = TRUE are, in order, the        *)
(* Scenes ended by the scene-breaks of Document.Text: the i-th of them      *)
(* holds, with the Scenes before it, exactly the runs that stand before the *)
(* i-th scene-break, so that the scene-break directly follows its last      *)
(* paragraph; a Scene without the flag is the last of its Chapter; and the  *)
(* Scene ended by a scene-break is the last of its Chapter exactly when the *)
(* scene-break is followed by a chapter-, prologue- or part-break or by the *)
(* end of the sequence: no further Scene is appended after it.              *)
C11_EndsWithSceneBreak ==
    TreeBuilt =>
        LET sc == AllScenes
            k == Len(SelectSeq(d.Text, IsSceneBreak))
        IN  /\ Len(SelectSeq(sc, EndsWithBreak)) = k
            /\ \A n \in 1..Len(sc) : ~EndsWithBreak(sc[n]) => sc[n].last
            /\ \A i \in 1..k :
                   LET n == NthWhere(sc, EndsWithBreak, i)
                       p == NthWhere(d.Text, IsSceneBreak, i)
                   IN  /\ RunsUpTo(sc, n) = SelectSeq(SubSeq(d.Text, 1, p), IsRun)
                       /\ sc[n].last <=>
                              (p = Len(d.Text) \/ IsStructuralBreak(d.Text[p + 1]))

\* a paragraph, a scene-break and a chapter-break: the first Chapter has the one
\* Scene, flagged, and the text after the chapter-break is in the next Chapter
C11_Witness ==
    /\ TreeBuilt
    /\ Len(d.Text) = 5
    /\ IsRun(d.Text[1]) /\ d.Text[2].type = "ParagraphBreak"
    /\ IsSceneBreak(d.Text[3]) /\ d.Text[4].type = "ChapterBreak"
    /\ IsRun(d.Text[5])
    /\ Len(d.Parts) = 1 /\ Len(d.Parts[1].Chapters) = 2
    /\ Len(d.Parts[1].Chapters[1].Scenes) = 1
    /\ d.Parts[1].Chapters[1].Scenes[1].EndsWithSceneBreak
    /\ Len(d.Parts[1].Chapters[2].Scenes) = 1
    /\ ~d.Parts[1].Chapters[2].Scenes[1].EndsWithSceneBreak

-----------------------------------------------------------------------------
(* Helpers for reading the directive the input holds at the reader's       *)
(* position, straight from the characters of the input.                    *)

\* the least index from i on whose character passes Test; Len(input) + 1 if none
IndexFrom(i, Test(_)) ==
    LET hits == { j \in i..Len(input) : Test(input[j]) } IN
    IF hits = {} THEN Len(input) + 1
    ELSE CHOOSE j \in hits : \A k \in hits : j <= k

NotSpace(c) == ~IsSpace(c)
IsNewline(c) == c = "\n"

\* the first character after the white space at the reader's position
AheadPos == IndexFrom(fin.pos, NotSpace)
SigilAhead == CharAt(AheadPos) = "@"

\* the word after that sigil, its end, and whether the word is terminated by a
\* white space character (and not cut off by the end of the input)
NameEnd == IndexFrom(AheadPos + 1, IsSpace)
NameAhead == SubSeq(input, AheadPos + 1, NameEnd - 1)
NameTerminated == NameEnd <= Len(input)

BodyNames == { W_scene, W_chapter, W_part, W_prologue, W_note }
KnownNames == MetaNames \cup { W_begin } \cup BodyNames

(* C12: a directive whose name is none of the directive names makes Parse   *)
(* fail with "Unrecognized directive", in the metadata phase and in the     *)
(* body, also when it is the last thing in the input.                       *)
C12_UnrecognizedDirectiveFails ==
    [][ (pc \in {"meta", "body"} /\ SigilAhead /\ NameAhead \notin KnownNames) =>
            (pc' = "done" /\ err' = "Unrecognized directive") ]_vars

(* C13: whenever Parse returns an error, from the metadata phase or from    *)
(* the body, the Document has no Parts: Document.Parts is set only by the   *)
(* step on which Parse returns without error, the whole input scanned.      *)
C13_NoTreeWithError ==
    /\ [](( pc # "done" \/ err # "nil") => d.Parts = <<>>)
    /\ [][ d'.Parts # d.Parts =>
             (pc' = "done" /\ err' = "nil" /\ fin'.pos = Len(input) + 1) ]_vars

\* a paragraph has been scanned and the directive after it rejected
C13_Witness ==
    /\ pc = "done"
    /\ err = "Invalid directive"
    /\ Len(d.Text) = 2 /\ IsRun(d.Text[1])
    /\ d.Parts = <<>>

\* the input holds the directive @name at the start of a line
HasDirective(name) ==
    \E i \in 1..Len(input) :
        /\ i = 1 \/ input[i - 1] = "\n"
        /\ input[i] = "@"
        /\ i + Len(name) <= Len(input)
        /\ SubSeq(input, i + 1, i + Len(name)) = name
        /\ IsSpace(CharAt(i + Len(name) + 1))

(* C14: Parse succeeds only when the metadata phase supplied a story type, *)
(* a title and an author byline.                                           *)
C14_RequiredMetadata ==
    (pc = "done" /\ err = "nil") =>
        /\ HasDirective(W_type)
        /\ d.Title # <<>>
        /\ d.Author.Byline # <<>>

-----------------------------------------------------------------------------
(* Helpers for reading the argument lines of the metadata directive at the *)
(* reader's position, straight from the characters of the input.  The     *)
(* argument lines of a directive end at the first '@' that is the first    *)
(* character after white space on its line (or after the name).            *)

\* the '@' at j is the first character that is no white space after the name or
\* after a newline
StartsDirective(j) ==
    /\ CharAt(j) = "@"
    /\ \E k \in (NameEnd - 1)..(j - 1) :
           /\ k = NameEnd - 1 \/ input[k] = "\n"
           /\ \A m \in (k + 1)..(j - 1) : IsSpace(input[m])

\* the '@' that ends the directive; Len(input) + 1 when the input ends before
TermPos ==
    LET hits == { j \in NameEnd..Len(input) : StartsDirective(j) } IN
    IF hits = {} THEN Len(input) + 1
    ELSE CHOOSE j \in hits : \A k \in hits : j <= k

Terminated == TermPos <= Len(input)

\* the start of the line (or rest of the name's line) that the newline at n ends
LineStart(n) ==
    LET nls == { m \in NameEnd..(n - 1) : input[m] = "\n" } IN
    IF nls = {} THEN NameEnd
    ELSE 1 + CHOOSE m \in nls : \A k \in nls : k <= m

\* the newlines that end an argument line: a line with a character that is no
\* white space
ArgLineEnds ==
    { n \in NameEnd..(TermPos - 1) :
        /\ input[n] = "\n"
        /\ \E m \in LineStart(n)..(n - 1) : ~IsSpace(input[m]) }

ArgCount == Cardinality(ArgLineEnds)

\* the error of the MissingRequiredValue kind that lexMetadata has for a name
MissingRequiredValue(name) ==
    CASE name = W_type -> "Missing type"
      [] name = W_title -> "Missing title"
      [] name = W_shortTitle -> "Missing short title"
      [] name = W_authorName -> "Missing author name"
      [] name = W_authorShortName -> "Missing author short name"
      [] name = W_authorByline -> "Missing author byline"
      [] name = W_authorAddress -> "Missing author address"
      [] name = W_authorPhoneNumber -> "Missing author phone number"
      [] name = W_authorEmail -> "Missing author email"
      [] name = W_authorOrgs -> "Missing author organizations"

(* C15: in the metadata phase a single-value directive whose argument      *)
(* lines, counted up to the '@' that ends the directive, are none or more  *)
(* than one makes Parse fail with its MissingRequiredValue error, and with *)
(* exactly one line it does not; authorAddress and authorOrgs fail so      *)
(* exactly when they have no argument line.  On the failure Parse returns  *)
(* at once: the Document is left as it was and the reader stands at that   *)
(* '@', the directive after it never read.                                 *)
C15_Step ==
    (/\ pc = "meta" /\ SigilAhead /\ NameTerminated /\ Terminated
     /\ NameAhead \in SingleValueNames \cup ListNames) =>
        LET missing == IF NameAhead \in SingleValueNames THEN ArgCount # 1
                       ELSE ArgCount = 0
        IN  /\ missing <=> err' = MissingRequiredValue(NameAhead)
            /\ missing => (pc' = "done" /\ d' = d /\ fin'.pos = TermPos)

C15_MissingRequiredValue == [][C15_Step]_vars

\* "@title novel\nx@y\n" before another directive: two lines, Parse has failed
C15_Witness ==
    /\ pc = "done"
    /\ err = "Missing title"
    /\ d = Document
    /\ NextChar = "@"
    /\ fin.pos > 1
    /\ SubSeq(input, 1, fin.pos - 1)
         = Block(W_title, << <<"n", "o", "v", "e", "l", "\n">>,
                             <<"x", "@", "y", "\n">> >>)

\* the argument lines of the directive at the reader's position, in input
\* order, each from its first character that is no white space to its newline
ArgLines ==
    [i \in 1..ArgCount |->
        LET n == CHOOSE e \in ArgLineEnds :
                     Cardinality({ m \in ArgLineEnds : m <= e }) = i
        IN  SubSeq(input, IndexFrom(LineStart(n), NotSpace), n - 1)]

(* C16: authorAddress and authorOrgs yield one list entry per argument     *)
(* line, in input order, and end at the first following line whose first   *)
(* character after white space is '@': the next directive is read from     *)
(* there.  An '@' inside a value line neither ends the directive nor       *)
(* starts one: it is part of the value, of a list entry as of an e-mail    *)
(* address.  "@authorAddress line1\nline2\n@authorEmail x@y.com\n" before  *)
(* @begin gives the address [line1, line2] and the e-mail x@y.com.         *)
C16_Step ==
    (pc = "meta" /\ SigilAhead /\ NameTerminated /\ Terminated /\ ArgCount >= 1) =>
        /\ NameAhead = W_authorAddress =>
              (d'.Author.Address = ArgLines /\ pc' = "meta" /\ fin'.pos = TermPos)
        /\ NameAhead = W_authorOrgs =>
              (d'.Author.ProfessionalOrgs = ArgLines /\ pc' = "meta"
               /\ fin'.pos = TermPos)
        /\ (NameAhead = W_authorEmail /\ ArgCount = 1) =>
              (d'.Author.EmailAddress = ArgLines[1] /\ pc' = "meta"
               /\ fin'.pos = TermPos)

C16_ScenarioE ==
    (input = ScenarioE /\ pc \in {"body", "done"}) =>
        /\ err = "nil"
        /\ d.Author.Address = << <<"l", "i", "n", "e", "1">>, <<"l", "i", "n", "e", "2">> >>
        /\ d.Author.EmailAddress = 
              <<"x", "@", "y", ".", "c", "o", "m">>

C16_MultiLineDirective == [][C16_Step]_vars /\ []C16_ScenarioE

\* the address "x@y", "l" has been stored and the next directive is to be read
C16_Witness ==
    /\ pc = "meta"
    /\ d.Author.Address = << <<"x", "@", "y">>, <<"l">> >>
    /\ NextChar = "@"
    /\ CharAt(fin.pos - 1) = "\n"

-----------------------------------------------------------------------------
(* Helpers for cutting lines out of the input.                             *)

\* the directive @name stands at i, at the start of a line
DirectiveAt(i, name) ==
    /\ i \in 1..Len(input)
    /\ i = 1 \/ input[i - 1] = "\n"
    /\ input[i] = "@"
    /\ i + Len(name) <= Len(input)
    /\ SubSeq(input, i + 1, i + Len(name)) = name
    /\ IsSpace(CharAt(i + Len(name) + 1)) \/ i + Len(name) = Len(input)

\* the input without its characters i..(j - 1)
Without(i, j) == SubSeq(input, 1, i - 1) \o SubSeq(input, j, Len(input))

(* C17: after @notes all text up to @begin is ignored: whatever lines stand *)
(* between them, what Parse returns (the error, the metadata fields, the   *)
(* body elements) is what it returns for the input with the notes section, *)
(* from @notes up to @begin, removed.                                      *)
C17_NotesIgnored ==
    pc = "done" =>
        \A i, j \in 1..Len(input) :
            (/\ i < j
             /\ DirectiveAt(i, W_notes)
             /\ DirectiveAt(j, W_begin)
             /\ \A k \in 1..(j - 1) : ~DirectiveAt(k, W_begin)) =>
                [d |-> d, err |-> err] = Parse(Without(i, j))

\* a body @note line begins at i: after the @begin line, at the start of a line
\* whose preceding newline is not escaped
NoteLineAt(i) ==
    /\ DirectiveAt(i, W_note)
    /\ \E b \in 1..(i - 1) : DirectiveAt(b, W_begin)
    /\ CharAt(i - 2) # "\\"

\* the index after the newline that ends the line begun at i
LineAfter(i) ==
    LET e == IndexFrom(i, IsNewline) IN
    IF e > Len(input) THEN e ELSE e + 1

-----------------------------------------------------------------------------
\* the number of paragraph-breaks among the elements s
ParagraphBreaks(s) ==
    Cardinality({ i \in 1..Len(s) : s[i].type = "ParagraphBreak" })

\* lexParagraph is about to read the newline before a blank line or a sigil
ParagraphEnds ==
    pc = "para" /\ NextChar = "\n" /\ CharAt(fin.pos + 1) \in {"\n", "@"}

(* C19: a paragraph ends at a blank line or at the sigil of a directive at *)
(* the start of the next line.  On that step the buffered text, when        *)
(* non-empty, is emitted as one run typed by bold and italic, then one      *)
(* paragraph-break is appended, and the character that ends the paragraph  *)
(* (the second newline, or the '@') is left as the next character to read, *)
(* for lexParagraphOrDirective.  No other step appends a paragraph-break.  *)
C19_Step ==
    /\ ParagraphEnds =>
          /\ pc' = "body" /\ err' = "nil"
          /\ d'.Text = d.Text \o es
                         \o (IF buf # <<>> THEN <<formatText(buf, bold, italic)>>
                             ELSE <<>>)
                         \o <<ParagraphBreak>>
          /\ fin'.pos = fin.pos + 1
          /\ CharAt(fin'.pos) \in {"\n", "@"}
    /\ ParagraphBreaks(Emitted') # ParagraphBreaks(Emitted) => ParagraphEnds

C19_ParagraphTermination == [][C19_Step]_vars

\* "a\n@..." : the run "a" and the paragraph-break emitted, the '@' still to read
C19_Witness ==
    /\ pc = "body"
    /\ d.Text = <<PlainText(<<"a">>), ParagraphBreak>>
    /\ NextChar = "@"
    /\ CharAt(fin.pos - 1) = "\n"

-----------------------------------------------------------------------------
\* the rest of the line after the name of the directive at the reader's position
RestOfLine == SubSeq(input, NameEnd, IndexFrom(NameEnd, IsNewline) - 1)

\* the break element a directive name stands for
BreakFor(name, title) ==
    CASE name = W_chapter -> ChapterBreak(title)
      [] name = W_part -> PartBreak(title)
      [] name = W_prologue -> PrologueBreak(title)

(* C20: in the body @scene yields exactly one scene-break and takes no      *)
(* argument; @chapter, @part and @prologue yield exactly one break of their *)
(* kind, titled with the rest of the line trimmed of white space; any name  *)
(* other than these and note fails with "Invalid directive" and yields no   *)
(* element.                                                                 *)
C20_Step ==
    (pc = "body" /\ SigilAhead) =>
        /\ NameAhead = W_scene =>
              /\ err' = "nil"
              /\ d'.Text = Append(d.Text, SceneBreak)
              /\ pc' = "body" => fin'.pos = NameEnd
        /\ NameAhead \in {W_chapter, W_part, W_prologue} =>
              /\ err' = "nil"
              /\ d'.Text = Append(d.Text, BreakFor(NameAhead, TrimSpace(RestOfLine)))
        /\ NameAhead \notin BodyNames =>
              /\ pc' = "done"
              /\ err' = "Invalid directive"
              /\ d' = d

C20_BodyDirectives == [][C20_Step]_vars

-----------------------------------------------------------------------------
\* the suffixes of t that are not empty
Suffixes(t) == { SubSeq(t, n, Len(t)) : n \in 1..Len(t) }

IsSuffix(r, t) ==
    Len(r) <= Len(t) /\ r = SubSeq(t, Len(t) - Len(r) + 1, Len(t))

(* C21: the structure builder is total.  On every non-empty element         *)
(* sequence parsePart, parseChapter, parseScene and parseParagraph return   *)
(* (no empty sequence is indexed) with a rest that is a suffix of what they *)
(* were given, and the rest of parsePart is shorter: every call of          *)
(* parsePart removes at least one element.  So parseText terminates with    *)
(* all elements consumed, after at most one Part per element and at least   *)
(* one Part when there is an element.                                       *)
C21_BuilderTotal ==
    /\ \A t \in Suffixes(d.Text) :
           /\ IsSuffix(parsePart(t).rest, t)
           /\ Len(parsePart(t).rest) < Len(t)
           /\ IsSuffix(parseChapter(t).rest, t)
           /\ IsSuffix(parseScene(t).rest, t)
           /\ IsSuffix(parseParagraph(t).rest, t)
    /\ TreeBuilt =>
           /\ Len(d.Parts) <= Len(d.Text)
           /\ d.Text # <<>> => Len(d.Parts) >= 1

\* markers only, adjacent and trailing: two part-breaks, then three more markers
C21_Witness ==
    /\ TreeBuilt
    /\ Len(d.Text) = 5
    /\ \A i \in 1..5 : ~IsRun(d.Text[i])
    /\ IsPartBreak(d.Text[1]) /\ IsPartBreak(d.Text[2])
    /\ IsSceneBreak(d.Text[3])
    /\ d.Text[5].type = "ChapterBreak"
    /\ Len(d.Parts) = 2

-----------------------------------------------------------------------------
\* the words of the elements text: for every run, one more than it has spaces
RawWords(text) ==
    Cardinality({ i \in 1..Len(text) : IsRun(text[i]) })
    + Cardinality(UNION { { <<i, j>> : j \in { k \in 1..Len(text[i].text) :
                                                  text[i].text[k] = " " } } :
                          i \in { r \in 1..Len(text) : IsRun(text[r]) } })

(* C22: WordCount returns the raw word count (for every run of             *)
(* Document.Text the number of pieces its text splits into on single       *)
(* spaces, markers adding nothing) rounded to the nearest multiple of 100  *)
(* when the count is below 15000 and of 500 when it is above, a count      *)
(* halfway between two multiples rounded up.                               *)
C22_Step ==
    pc = "count" =>
        LET raw == count + RawWords(d.Text)
            g == IF raw < 15000 THEN 100 ELSE 500
        IN  /\ count' = raw
            /\ words' % g = 0
            /\ 2 * (raw - words') < g
            /\ 2 * (words' - raw) <= g

C22_WordCount == [][C22_Step]_vars

\* 15250 words, one of them from the empty run: halfway, rounded up to 15500
C22_Witness ==
    /\ pc = "counted"
    /\ count = 15250
    /\ words = 15500
    /\ \E i \in 1..Len(d.Text) : d.Text[i] = ItalicText(<<>>)
    /\ \E i \in 1..Len(d.Text) : ~IsRun(d.Text[i])

-----------------------------------------------------------------------------
(* C23: the scanner looks ahead one character at most.  Every UnreadRune   *)
(* directly follows a successful ReadRune, with no read and no pushback in *)
(* between: no UnreadRune ever fails, in the metadata phase or in the      *)
(* body, and the reader never stands before the place a step found it at.  *)
C23_OneCharacterPushback ==
    /\ [](~fin.unreadErr)
    /\ [][fin'.pos >= fin.pos]_vars

\* "**a": the 'a' read after the two '*' has been pushed back
C23_Witness ==
    /\ pc = "para"
    /\ ~fin.last /\ ~fin.unreadErr
    /\ CharAt(fin.pos - 2) = "*" /\ CharAt(fin.pos - 1) = "*"
    /\ NextChar = "a"
    /\ bold /\ ~italic

-----------------------------------------------------------------------------
(* C24: every rendering path labels a chapter "Chapter N" or, with a       *)
(* title, "Chapter N: T": the HTML headings, the HTML table of contents,   *)
(* the bbcode headings and util.ChapterLabel give the same labels for the  *)
(* chapters of a document.                                                 *)
C24_SameChapterLabel ==
    \A p \in DOMAIN labels, q \in DOMAIN labels : labels[p] = labels[q]

-----------------------------------------------------------------------------
\* the Paragraphs of all Scenes, in document order
AllParagraphs ==
    Concat([n \in 1..Len(AllScenes) |-> AllScenes[n].s.Paragraphs])

\* the maximal groups of neighbouring runs of the elements text, in order
RunGroups(text) ==
    LET starts == { i \in 1..Len(text) :
                      IsRun(text[i]) /\ (i = 1 \/ ~IsRun(text[i - 1])) }
        start(k) == CHOOSE i \in starts :
                        Cardinality({ j \in starts : j <= i }) = k
        end(i) == CHOOSE j \in i..Len(text) :
                      /\ \A m \in i..j : IsRun(text[m])
                      /\ (j = Len(text) \/ ~IsRun(text[j + 1]))
    IN  [k \in 1..Cardinality(starts) |-> SubSeq(text, start(k), end(start(k)))]

(* C25: the builder loses, duplicates and reorders no text.  The runs of   *)
(* all Paragraphs, in the order of the tree, are the runs of Document.Text *)
(* in their order, each with its emphasis and text; and the Paragraphs     *)
(* that hold a run hold, in order, the groups of runs that no break        *)
(* element divides: two runs share a Paragraph exactly when no break lies  *)
(* between them.                                                           *)
C25_NoTextLost ==
    TreeBuilt =>
        LET ps == SelectSeq(AllParagraphs, LAMBDA p : p.Text # <<>>) IN
        /\ RunsUpTo(AllScenes, Len(AllScenes)) = SelectSeq(d.Text, IsRun)
        /\ [k \in 1..Len(ps) |-> ps[k].Text] = RunGroups(d.Text)

\* two runs of different emphasis in one Paragraph, a third run after a
\* chapter-break in another
C25_Witness ==
    /\ TreeBuilt
    /\ d.Text = <<PlainText(<<"a">>), ItalicText(<<"b">>), ChapterBreak(<<"C">>),
                  ItalicText(<<"b">>), PlainText(<<"a">>)>>
    /\ Len(AllParagraphs) = 2
    /\ AllParagraphs[1].Text = <<PlainText(<<"a">>), ItalicText(<<"b">>)>>
    /\ AllParagraphs[2].Text = <<ItalicText(<<"b">>), PlainText(<<"a">>)>>

-----------------------------------------------------------------------------
\* the titles of the elements of text that pass Test, in order
\* (of the units of a sequence us alike)
MarkerTitles(text, Test(_)) ==
    LET ms == SelectSeq(text, Test) IN [i \in 1..Len(ms) |-> ms[i].text]

UnitTitles(us, Test(_)) ==
    LET ns == SelectSeq(us, Test) IN [i \in 1..Len(ns) |-> ns[i].Title]

(* C26: the builder consumes every marker exactly once.  The Parts that    *)
(* are not anonymous are as many as the part-breaks, the ordinary Chapters *)
(* that are not anonymous as many as the chapter-breaks, the prologue      *)
(* Chapters as many as the prologue-breaks and the Scenes with             *)
(* EndsWithSceneBreak as many as the scene-breaks; and the i-th such unit  *)
(* has the title of the i-th marker of its kind.                           *)
C26_MarkersConsumedOnce ==
    TreeBuilt =>
        /\ UnitTitles(d.Parts, LAMBDA p : ~p.Anonymous)
               = MarkerTitles(d.Text, LAMBDA e : e.type = "PartBreak")
        /\ UnitTitles(AllChapters, LAMBDA c : ~c.Anonymous /\ ~c.Prologue)
               = MarkerTitles(d.Text, LAMBDA e : e.type = "ChapterBreak")
        /\ UnitTitles(AllChapters, LAMBDA c : c.Prologue)
               = MarkerTitles(d.Text, LAMBDA e : e.type = "PrologueBreak")
        /\ Len(SelectSeq(AllScenes, EndsWithBreak))
               = Len(SelectSeq(d.Text, IsSceneBreak))
        /\ \A i \in 1..Len(d.Parts) : d.Parts[i].Anonymous => d.Parts[i].Title = <<>>
        /\ \A j \in 1..Len(AllChapters) :
               AllChapters[j].Anonymous =>
                   AllChapters[j].Title = <<>> /\ ~AllChapters[j].Prologue

\* one marker of every kind, the chapter-breaks with two titles
C26_Witness ==
    /\ TreeBuilt
    /\ d.Text = <<PrologueBreak(<<>>), ChapterBreak(<<"D">>), SceneBreak,
                  PartBreak(<<"P">>), ChapterBreak(<<"C">>)>>
    /\ Len(d.Parts) = 2
    /\ d.Parts[1].Anonymous /\ ~d.Parts[2].Anonymous
    /\ Len(AllChapters) = 3
    /\ AllChapters[1].Prologue
    /\ AllChapters[2].Title = <<"D">> /\ AllChapters[3].Title = <<"C">>

-----------------------------------------------------------------------------
\* the runs of text that start a paragraph: the first element and every run
\* that follows an element that is no run
FirstRuns(text) ==
    { i \in 1..Len(text) : IsRun(text[i]) /\ (i = 1 \/ ~IsRun(text[i - 1])) }

C27_Step ==
    /\ (pc = "body" /\ pc' = "para") =>
           ~bold' /\ ~italic' /\ es' = <<>> /\ buf' = <<>>
    /\ (pc = "para" /\ pc' = "body") =>
           d'.Text = d.Text \o es
                       \o (IF buf # <<>> THEN <<formatText(buf, bold, italic)>>
                                         ELSE <<>>)
                       \o <<ParagraphBreak>>

(* C27: the bold/italic state is plain at the start of every paragraph.    *)
(* lexParagraph is entered with neither bold nor italic set, whatever      *)
(* emphasis the paragraph before left open, so that the first run of every *)
(* paragraph is a plain one; and the text pending when a blank line or a   *)
(* directive ends a paragraph is emitted with the emphasis in force.       *)
C27_EmphasisResets ==
    /\ [](\A i \in FirstRuns(d.Text \o es) : (d.Text \o es)[i].type = "PlainText")
    /\ [][C27_Step]_vars

\* "*a\n\na": the first paragraph ended in italic, the second is scanned plain
C27_Witness ==
    /\ pc = "para"
    /\ d.Text = <<PlainText(<<>>), ItalicText(<<"a">>), ParagraphBreak>>
    /\ buf = <<"a">>
    /\ ~bold /\ ~italic

-----------------------------------------------------------------------------
(* C28: in the elements the scanner emits every paragraph-break directly   *)
(* follows a run of text: a paragraph-break is never the first element and *)
(* never follows a paragraph-break or a scene-, chapter-, prologue- or     *)
(* part-break.                                                             *)
C28_BreakFollowsRun ==
    \A i \in 1..Len(d.Text) :
        d.Text[i].type = "ParagraphBreak" => i > 1 /\ IsRun(d.Text[i - 1])

\* "***\n\n": the paragraph holds no text, its paragraph-break follows the empty
\* run that the '*' emitted
C28_Witness ==
    /\ pc = "body"
    /\ CharAt(Len(Header) + 1) = "*" /\ CharAt(Len(Header) + 3) = "*"
    /\ d.Text = <<PlainText(<<>>), ParagraphBreak>>

-----------------------------------------------------------------------------
C29_Step ==
    /\ (pc = "para" /\ NextChar = "@") =>
           /\ pc' = "para"
           /\ buf' = Append(buf, "@")
           /\ fin'.pos = fin.pos + 1
           /\ UNCHANGED <<d, err, es, bold, italic>>
    /\ (pc = "para" /\ pc' = "body" /\ NextChar' = "@") =>
           CharAt(fin'.pos - 1) = "\n"

(* C29: inside a paragraph '@' starts a directive only as the first        *)
(* character after a newline.  Wherever else lexParagraph meets an         *)
(* unescaped '@' it appends it to the pending text and goes on with the    *)
(* paragraph: no element, no directive and no error come of it; and a      *)
(* paragraph that a '@' ends stood at the '@' right after a newline.  The  *)
(* '@' that lexParagraph meets stands inside a line, or after a newline    *)
(* that a backslash made text.                                             *)
C29_SigilInsideLine ==
    /\ [](pc = "para" /\ NextChar = "@" =>
              \/ CharAt(fin.pos - 1) \notin {"\n", NUL}
              \/ CharAt(fin.pos - 1) = "\n" /\ CharAt(fin.pos - 2) = "\\")
    /\ [][C29_Step]_vars

\* "a@a": the '@' is text of the run
C29_Witness ==
    /\ pc = "para"
    /\ CharAt(fin.pos - 2) = "@"
    /\ buf = <<"a", "@", "a">>
    /\ es = <<>> /\ err = "nil"

-----------------------------------------------------------------------------
\* doc with the field that the directive name writes set to its zero value
\* (doc itself for a name that writes no field)
OwnFieldCleared(doc, name) ==
    CASE name = W_type -> [doc EXCEPT !.Type = ShortStory]
      [] name = W_title -> [doc EXCEPT !.Title = <<>>]
      [] name = W_shortTitle -> [doc EXCEPT !.ShortTitle = <<>>]
      [] name = W_authorName -> [doc EXCEPT !.Author.Name = <<>>]
      [] name = W_authorShortName -> [doc EXCEPT !.Author.ShortName = <<>>]
      [] name = W_authorByline -> [doc EXCEPT !.Author.Byline = <<>>]
      [] name = W_authorAddress -> [doc EXCEPT !.Author.Address = <<>>]
      [] name = W_authorPhoneNumber -> [doc EXCEPT !.Author.PhoneNumber = <<>>]
      [] name = W_authorEmail -> [doc EXCEPT !.Author.EmailAddress = <<>>]
      [] name = W_authorOrgs -> [doc EXCEPT !.Author.ProfessionalOrgs = <<>>]
      [] OTHER -> doc

\* the field that the directive name writes
OwnField(doc, name) ==
    CASE name = W_type -> doc.Type
      [] name = W_title -> doc.Title
      [] name = W_shortTitle -> doc.ShortTitle
      [] name = W_authorName -> doc.Author.Name
      [] name = W_authorShortName -> doc.Author.ShortName
      [] name = W_authorByline -> doc.Author.Byline
      [] name = W_authorAddress -> doc.Author.Address
      [] name = W_authorPhoneNumber -> doc.Author.PhoneNumber
      [] name = W_authorEmail -> doc.Author.EmailAddress
      [] name = W_authorOrgs -> doc.Author.ProfessionalOrgs

\* the value that the directive ahead gives its field
ValueAhead ==
    IF NameAhead \in ListNames THEN ArgLines
    ELSE IF NameAhead = W_type
    THEN (IF ArgLines[1] = W_novel THEN Novel ELSE ShortStory)
    ELSE ArgLines[1]

C30_Step ==
    pc = "meta" =>
        /\ OwnFieldCleared(d', NameAhead) = OwnFieldCleared(d, NameAhead)
        /\ (SigilAhead /\ NameAhead \in MetaNames \ { W_notes } /\ pc' = "meta") =>
               OwnField(d', NameAhead) = ValueAhead
        /\ (~SigilAhead \/ NameAhead \notin MetaNames \ { W_notes } \/ pc' = "done") =>
               d' = d

\* "@title novel\n@title T\n@begin\na\n", with or without notes before
C30_LastWins ==
    (/\ \E lead \in MetaLeads :
            input = lead \o Block(W_title, << <<"n", "o", "v", "e", "l", "\n">> >>)
                      \o <<"@">> \o W_title \o <<" ", "T", "\n">> \o Header
                      \o <<"a", "\n">>
     /\ pc \in {"body", "para", "done"}) =>
        err = "nil" /\ d = [Document EXCEPT !.Title = <<"T">>, !.Text = d.Text,
                                              !.Parts = d.Parts]

(* C30: a metadata directive writes its own field of the Document and no   *)
(* other.  Every step of lexMetadata leaves all fields but the one of the  *)
(* directive it reads as they were; when the directive is accepted its     *)
(* field holds the directive's value whatever it held before, so that of   *)
(* two directives with one name the later one's value is kept; and notes,  *)
(* begin and every directive that fails leave the Document as it was.      *)
C30_MetadataFrame == [][C30_Step]_vars /\ []C30_LastWins

\* "@authorName novel\n@title T\n@begin\na\n": the title has been written and
\* the author's name is still there; @begin has written nothing
C30_Witness ==
    /\ pc = "body"
    /\ NameAhead = <<>>
    /\ d = [Document EXCEPT !.Title = <<"T">>,
                            !.Author.Name = <<"n", "o", "v", "e", "l">>]

====
